---- MODULE Spec2Model ----
(***************************************************************************)
(* A model of scharf's reference scanning and remediation engine:          *)
(*   - package actcache : the persisted cache file cache.json              *)
(*   - package network  : SHAResolver (in-memory cache, GitHub lookup)     *)
(*   - package scanner  : ScanContentWithPosition and findRegex            *)
(*                                                                         *)
(* A Go string is a sequence of one-token strings.  A token is one byte    *)
(* ("o", "/", "@", ...) or an opaque run of bytes that no operation looks  *)
(* into ("sha-1").  The empty string is <<>>.                              *)
(***************************************************************************)
EXTENDS Integers, Sequences, FiniteSets, TLC

VARIABLES
    cacheFile,  \* <scharfDir>/cache.json on disk
    proc,       \* "none" | "running" | "crashed": the process holding the resolver
    cache,      \* SHAResolver.cache : map[string]string
    now,        \* the wall clock read by time.Now()
    last,       \* the call that was made last: its arguments, what the network
                \* and the file system answered (resp, fs), what it returned
    hist,       \* per reference: the first identifier this resolver returned
                \* for it, and whether that call went to the network
    raw,        \* the input of the pure parsing steps (SpecParse)
    content,    \* the bytes of the workflow file given to the scanner (SpecScan)
    repo,       \* the working tree that is audited and fixed (SpecFix, SpecRepo)
    wfs,        \* the workflows that the last AuditRepository returned
    scanned,    \* the working tree as that audit read it
    edits,      \* how often a workflow file was fixed or changed by another process
    workspace,  \* the repositories that ScanRepos is given
    upserts     \* the calls of UpdateCacheEntry that two processes have under
                \* way: where each one is, and the order of their steps

vars == <<cacheFile, proc, cache, now, last, hist, raw, content, repo, wfs, scanned,
          edits, workspace, upserts>>

----------------------------------------------------------------------------
(* Bounds *)

MaxListing == 1     \* entries in one upstream listing
MaxTime == 3        \* clock ticks (one per UpdateCacheEntry)
MaxRawLen == 4      \* length of the inputs of SpecParse
MaxPieces == 3      \* pieces a scanned content is made of (SpecScan)
MaxFixPieces == 2   \* pieces a workflow file is made of (SpecAssemble, SpecFix)
MaxFiles == 2       \* entries of a workflow directory (SpecRepo)
MaxEdits == 1       \* fixes of a workflow file and changes by another process
MaxRepos == 2       \* repositories of a workspace (SpecInventory)

----------------------------------------------------------------------------
(* Strings *)

Empty == <<>>

\* a byte that is not valid UTF-8 on its own, and U+FFFD
BadByte == "xFF"
ReplChar == "uFFFD"

HasPrefix(s, prefix) ==
    /\ Len(s) >= Len(prefix)
    /\ SubSeq(s, 1, Len(prefix)) = prefix

\* the upper-case letters among the bytes the model uses
ToLowerByte(c) ==
    CASE c = "V" -> "v"
      [] c = "O" -> "o"
      [] c = "R" -> "r"
      [] c = "M" -> "m"
      [] OTHER -> c

ToLower(s) == [i \in 1..Len(s) |-> ToLowerByte(s[i])]

RECURSIVE SplitFrom(_, _, _, _)
SplitFrom(s, sep, i, cur) ==
    IF i > Len(s) THEN <<cur>>
    ELSE IF s[i] = sep THEN <<cur>> \o SplitFrom(s, sep, i + 1, Empty)
    ELSE SplitFrom(s, sep, i + 1, Append(cur, s[i]))

\* strings.Split with a one-byte separator
Split(s, sep) == SplitFrom(s, sep, 1, Empty)

\* byte order of the tokens, for sorting map keys
ByteOrder == <<"-", ".", "/", "1", "@", "V", "a", "i", "m", "n", "o", "r", "v",
              "uFFFD", "xFF">>

Rank(c) == IF \E i \in 1..Len(ByteOrder) : ByteOrder[i] = c
           THEN CHOOSE i \in 1..Len(ByteOrder) : ByteOrder[i] = c
           ELSE 0

RECURSIVE LessStr(_, _)
LessStr(a, b) ==
    IF b = Empty THEN FALSE
    ELSE IF a = Empty THEN TRUE
    ELSE IF Rank(Head(a)) # Rank(Head(b)) THEN Rank(Head(a)) < Rank(Head(b))
    ELSE LessStr(Tail(a), Tail(b))

\* Go map read: the zero value for a missing key
MapGet(m, k) == IF k \in DOMAIN m THEN m[k] ELSE Empty

MapPut(m, k, v) == [x \in DOMAIN m \cup {k} |-> IF x = k THEN v ELSE m[x]]

NoEntries == [x \in {} |-> x]

----------------------------------------------------------------------------
(* package actcache *)

\* hashEntry{SHA, UpdatedAt}
hashEntry(sha, updatedAt) == [SHA |-> sha, UpdatedAt |-> updatedAt]

ZeroEntry == hashEntry(Empty, Empty)

\* time.Time.Format(time.RFC3339Nano)
FormatTime(t) == <<ToString(t)>>

\* encoding/json writes a string coerced to valid UTF-8
Coerce(s) == [i \in 1..Len(s) |-> IF s[i] = BadByte THEN ReplChar ELSE s[i]]

RECURSIVE SortKeys(_)
SortKeys(ks) ==
    IF ks = {} THEN <<>>
    ELSE LET k == CHOOSE x \in ks : \A y \in ks \ {x} : LessStr(x, y)
         IN <<k>> \o SortKeys(ks \ {k})

\* json.MarshalIndent of a map[string]hashEntry: one member per key, keys sorted
MarshalIndent(m) ==
    LET ks == SortKeys(DOMAIN m)
    IN [i \in 1..Len(ks) |->
          [key |-> Coerce(ks[i]),
           sha |-> Coerce(m[ks[i]].SHA),
           updated_at |-> Coerce(m[ks[i]].UpdatedAt)]]

RECURSIVE UnmarshalFrom(_, _, _)
UnmarshalFrom(doc, i, m) ==
    IF i > Len(doc) THEN m
    ELSE UnmarshalFrom(doc, i + 1,
                       MapPut(m, doc[i].key, hashEntry(doc[i].sha, doc[i].updated_at)))

\* json.Unmarshal of an object into a map: a repeated key keeps its last member
Unmarshal(doc) == UnmarshalFrom(doc, 1, NoEntries)

\* A Go map value: nil or allocated
GoMap(kv) == [isNil |-> FALSE, kv |-> kv]
NilMap == [isNil |-> TRUE, kv |-> NoEntries]

\* The file cache.json:
\*   absent      no such file
\*   unreadable  os.ReadFile fails otherwise (a directory, no permission)
\*   invalid     bytes that do not decode into map[string]hashEntry
\*   null        the JSON text null
\*   object      a JSON object, doc its members in file order
File(kind, doc) == [kind |-> kind, doc |-> doc]

FileAbsent == File("absent", <<>>)

\* what the file system does to a write: "ok", or the failures of saveCache
FsOutcomes == {"ok", "mkdirFails", "openFails", "shortWrite"}

loadCache_NoNotExistCheck(file) ==
    IF file.kind \in {"absent", "unreadable"} THEN [m |-> NilMap, err |-> "reading"]
    ELSE IF file.kind = "invalid" THEN [m |-> NilMap, err |-> "parsing"]
    ELSE IF file.kind = "null" THEN [m |-> NilMap, err |-> ""]
    ELSE [m |-> GoMap(Unmarshal(file.doc)), err |-> ""]

\* loadCache: (map, error); err = "" is the nil error
loadCache(file) ==
    IF file.kind = "absent" THEN [m |-> GoMap(NoEntries), err |-> ""]
    ELSE IF file.kind = "unreadable" THEN [m |-> NilMap, err |-> "reading"]
    ELSE IF file.kind = "invalid" THEN [m |-> NilMap, err |-> "parsing"]
    ELSE IF file.kind = "null" THEN [m |-> NilMap, err |-> ""]  \* Unmarshal sets the map to nil
    ELSE [m |-> GoMap(Unmarshal(file.doc)), err |-> ""]

\* a saveCache that keeps the members the file holds and adds the new keys
saveCache_KeepExisting(file, m, fs) ==
    IF fs # "ok" \/ m.isNil \/ file.kind # "object"
    THEN (IF fs = "ok" /\ ~m.isNil THEN [file |-> File("object", MarshalIndent(m.kv)), err |-> ""]
          ELSE [file |-> file, err |-> IF fs = "ok" THEN "" ELSE "writing"])
    ELSE [file |-> File("object",
                        MarshalIndent([k \in DOMAIN m.kv \cup DOMAIN Unmarshal(file.doc) |->
                                          IF k \in DOMAIN Unmarshal(file.doc)
                                          THEN Unmarshal(file.doc)[k] ELSE m.kv[k]])),
          err |-> ""]

\* a saveCache that writes its members over those of the file and keeps the
\* other members of the file
saveCache_Merge(file, m, fs) ==
    IF fs # "ok" \/ m.isNil \/ file.kind # "object"
    THEN (IF fs = "ok" /\ ~m.isNil THEN [file |-> File("object", MarshalIndent(m.kv)), err |-> ""]
          ELSE [file |-> file, err |-> IF fs = "ok" THEN "" ELSE "writing"])
    ELSE [file |-> File("object",
                        MarshalIndent([k \in DOMAIN m.kv \cup DOMAIN Unmarshal(file.doc) |->
                                          IF k \in DOMAIN m.kv
                                          THEN m.kv[k] ELSE Unmarshal(file.doc)[k]])),
          err |-> ""]

\* saveCache: the file after the call and the error
saveCache(file, m, fs) ==
    IF fs = "mkdirFails" THEN [file |-> file, err |-> "ensuring dir"]
    ELSE IF fs = "openFails" THEN [file |-> file, err |-> "writing"]
    ELSE IF fs = "shortWrite" THEN [file |-> File("invalid", <<>>), err |-> "writing"]
    ELSE IF m.isNil THEN [file |-> File("null", <<>>), err |-> ""]
    ELSE [file |-> File("object", MarshalIndent(m.kv)), err |-> ""]

GetCache(file) == loadCache(file)

UpdateCacheEntry_Fresh(file, action, newSHA, t, fs) ==
    LET l == loadCache(file)
    IN IF l.err # "" THEN [file |-> file, err |-> l.err, panic |-> FALSE]
       ELSE LET s == saveCache(file,
                               GoMap(MapPut(NoEntries, action,
                                            hashEntry(newSHA, FormatTime(t)))), fs)
            IN [file |-> s.file, err |-> s.err, panic |-> FALSE]

\* UpdateCacheEntry: the file after the call, the error, and whether the
\* assignment m[action] = ... panicked (assignment to entry in nil map)
UpdateCacheEntry(file, action, newSHA, t, fs) ==
    LET l == loadCache(file)
    IN IF l.err # "" THEN [file |-> file, err |-> l.err, panic |-> FALSE]
       ELSE IF l.m.isNil THEN [file |-> file, err |-> "", panic |-> TRUE]
       ELSE LET s == saveCache(file,
                               GoMap(MapPut(l.m.kv, action,
                                            hashEntry(newSHA, FormatTime(t)))), fs)
            IN [file |-> s.file, err |-> s.err, panic |-> FALSE]

----------------------------------------------------------------------------
(* package network *)

apiURL == <<"https://api.github.com/repos">>

BranchOrTag(name, sha) == [Name |-> name, Commit |-> [Sha |-> sha]]

RECURSIVE searchTagFrom(_, _, _)
searchTagFrom(tags, version, i) ==
    IF i > Len(tags) THEN [found |-> FALSE, sha |-> Empty]
    ELSE IF tags[i].Name = version
         THEN IF tags[i].Commit.Sha = Empty
              THEN [found |-> FALSE, sha |-> Empty]
              ELSE [found |-> TRUE, sha |-> tags[i].Commit.Sha]
    ELSE searchTagFrom(tags, version, i + 1)

RECURSIVE searchTag_AnySha(_, _, _)
searchTag_AnySha(tags, version, i) ==
    IF i > Len(tags) THEN [found |-> FALSE, sha |-> Empty]
    ELSE IF tags[i].Name = version
         THEN [found |-> TRUE, sha |-> tags[i].Commit.Sha]
    ELSE searchTag_AnySha(tags, version, i + 1)

searchTag_NoEmptyCheck(tags, version) == searchTag_AnySha(tags, version, 1)

searchTag(tags, version) == searchTagFrom(tags, version, 1)

splitRawAction(rawAction) ==
    LET splits == Split(rawAction, "@")
    IN IF Len(splits) = 2 THEN <<splits[1], splits[2]>>
       ELSE IF Len(splits) = 1 THEN <<splits[1], Empty>>
       ELSE <<Empty, Empty>>

makeAPIEndpoint_CaseSensitive(action, version) ==
    IF HasPrefix(version, <<"v">>)
    THEN apiURL \o <<"/">> \o action \o <<"/tags">>
    ELSE apiURL \o <<"/">> \o action \o <<"/branches">>

makeAPIEndpoint(action, version) ==
    IF HasPrefix(ToLower(version), <<"v">>)
    THEN apiURL \o <<"/">> \o action \o <<"/tags">>
    ELSE apiURL \o <<"/">> \o action \o <<"/branches">>

\* Resolve, from the split to the URL it asks
ResolveTarget(action) ==
    LET splits == splitRawAction(action)
        actionBase == splits[1]
        version == IF splits[2] = Empty THEN <<"m", "a", "i", "n">> ELSE splits[2]
    IN [actionBase |-> actionBase, version |-> version,
        url |-> makeAPIEndpoint(actionBase, version)]

\* a lookup under the reference with its version defaulted
CacheHit_AfterDefaulting(c, action) ==
    \E k \in DOMAIN c :
       /\ c[k] # Empty
       /\ splitRawAction(k)[1] = splitRawAction(action)[1]
       /\ (IF splitRawAction(k)[2] = Empty THEN <<"m", "a", "i", "n">>
           ELSE splitRawAction(k)[2])
          = (IF splitRawAction(action)[2] = Empty THEN <<"m", "a", "i", "n">>
             ELSE splitRawAction(action)[2])

\* s.cache[action] != ""
CacheHit(c, action) == MapGet(c, action) # Empty

Memoize_Skip(c, action, sha) == c

\* a map that holds the newest entry alone
Memoize_Alone(c, action, sha) == [k \in {action} |-> sha]

\* s.cache[action] = sha
Memoize(c, action, sha) == MapPut(c, action, sha)

----------------------------------------------------------------------------
(* package scanner *)

Digits == {"0", "1", "2", "3", "4", "5", "6", "7", "8", "9"}

Letters ==
    {"a", "b", "c", "d", "e", "f", "g", "h", "i", "j", "k", "l", "m", "n", "o",
     "p", "q", "r", "s", "t", "u", "v", "w", "x", "y", "z",
     "A", "B", "C", "D", "E", "F", "G", "H", "I", "J", "K", "L", "M", "N", "O",
     "P", "Q", "R", "S", "T", "U", "V", "W", "X", "Y", "Z"}

\* [\w-]
WordOrDash == Letters \cup Digits \cup {"_", "-"}

\* Offsets are Go's: byte i of a line is line[i + 1], and a match is the
\* half-open interval <<start, end>>.

\* the end of the longest run of bytes of class that starts at offset p
RECURSIVE Run(_, _, _)
Run(line, p, class) ==
    IF p < Len(line) /\ line[p + 1] \in class THEN Run(line, p + 1, class) ELSE p

HasAt(line, p, lit) ==
    /\ p + Len(lit) <= Len(line)
    /\ SubSeq(line, p + 1, p + Len(lit)) = lit

\* (?:\.\d+)* from offset p, greedy: the end of the last group
RECURSIVE DotGroups(_, _)
DotGroups(line, p) ==
    IF HasAt(line, p, <<".">>) /\ Run(line, p + 1, Digits) > p + 1
    THEN DotGroups(line, Run(line, p + 1, Digits))
    ELSE p

NoMatch == -1

VersionEnd_NoBranches(line, q) ==
    LET d == Run(line, q, Digits)
    IN IF HasAt(line, q, <<"v">>) /\ Run(line, q + 1, Digits) > q + 1
       THEN DotGroups(line, Run(line, q + 1, Digits))
       ELSE IF d > q /\ HasAt(line, d, <<".">>) /\ Run(line, d + 1, Digits) > d + 1
       THEN DotGroups(line, Run(line, d + 1, Digits))
       ELSE NoMatch

\* the alternatives after '@', in the order of the pattern
VersionEnd(line, q) ==
    LET d == Run(line, q, Digits)
    IN IF HasAt(line, q, <<"v">>) /\ Run(line, q + 1, Digits) > q + 1
       THEN DotGroups(line, Run(line, q + 1, Digits))          \* v\d+(?:\.\d+)*
       ELSE IF d > q /\ HasAt(line, d, <<".">>) /\ Run(line, d + 1, Digits) > d + 1
       THEN DotGroups(line, Run(line, d + 1, Digits))          \* \d+\.\d+(?:\.\d+)*
       ELSE IF HasAt(line, q, <<"m", "a", "i", "n">>) THEN q + 4
       ELSE IF HasAt(line, q, <<"d", "e", "v">>) THEN q + 3
       ELSE IF HasAt(line, q, <<"m", "a", "s", "t", "e", "r">>) THEN q + 6
       ELSE NoMatch

\* findRegex anchored at offset s: the end of the match the engine prefers,
\* or NoMatch
findRegexAt(line, s) ==
    LET e1 == Run(line, s, WordOrDash)          \* ([\w-]+)
        e2 == Run(line, e1 + 1, WordOrDash)     \* ([\w-]+)
    IN IF e1 > s /\ HasAt(line, e1, <<"/">>) /\ e2 > e1 + 1 /\ HasAt(line, e2, <<"@">>)
       THEN VersionEnd(line, e2 + 1)
       ELSE NoMatch

\* regexp.FindAllIndex(line, -1): the leftmost match from pos on, then on
\* from its end
RECURSIVE FindAllIndexFrom(_, _)
FindAllIndexFrom(line, pos) ==
    LET starts == {s \in pos..(Len(line) - 1) : findRegexAt(line, s) # NoMatch}
    IN IF starts = {} THEN <<>>
       ELSE LET s == CHOOSE x \in starts : \A y \in starts : x <= y
                e == findRegexAt(line, s)
            IN <<<<s, e>>>> \o FindAllIndexFrom(line, e)

FindAllIndex(line) == FindAllIndexFrom(line, 0)

Match(text, line, col) == [Text |-> text, Line |-> line, Col |-> col]

LineMatches_ColIsOffset(line, i) ==
    LET locs == FindAllIndex(line)
    IN [k \in 1..Len(locs) |->
          Match(SubSeq(line, locs[k][1] + 1, locs[k][2]), i, locs[k][1])]

\* the inner loop of ScanContentWithPosition for line number i (from 1)
LineMatches(line, i) ==
    LET locs == FindAllIndex(line)
    IN [k \in 1..Len(locs) |->
          Match(SubSeq(line, locs[k][1] + 1, locs[k][2]), i, locs[k][1] + 1)]

RECURSIVE ScanLinesFrom(_, _)
ScanLinesFrom(lines, i) ==
    IF i > Len(lines) THEN <<>>
    ELSE LineMatches(lines[i], i) \o ScanLinesFrom(lines, i + 1)

\* ScanContentWithPosition(content, findRegex): (matches, error)
ScanContentWithPosition(bytes) ==
    [results |-> ScanLinesFrom(Split(bytes, "\n"), 1), err |-> ""]

----------------------------------------------------------------------------
(* The inputs of the resolver's specification *)

Main == <<"m", "a", "i", "n">>
V1 == <<"v", "1">>

RefTag == <<"o", "/", "r", "@", "v", "1">>      \* "o/r@v1"
RefBare == <<"o", "/", "r">>                    \* "o/r"

Refs == {RefTag, RefBare}

Sha1 == <<"sha-1">>
Sha2 == <<"sha-2">>

Names == {V1, Main}
Entries == {BranchOrTag(n, s) : n \in Names, s \in {Empty, Sha1, Sha2}}

RECURSIVE SeqsUpTo(_, _)
SeqsUpTo(S, n) ==
    IF n = 0 THEN {<<>>}
    ELSE LET shorter == SeqsUpTo(S, n - 1)
         IN shorter \cup {Append(q, x) : q \in {r \in shorter : Len(r) = n - 1}, x \in S}

Listings == SeqsUpTo(Entries, MaxListing)

\* what http.Get and the decoding of the body give
Responses ==
    {[kind |-> "httpError", body |-> <<>>], [kind |-> "badJSON", body |-> <<>>]}
    \cup {[kind |-> "ok", body |-> l] : l \in Listings}

\* the cache files a process can find when it starts
StoredShas == {Empty, Sha1}
InitDocs ==
    {<<>>}
    \cup {<<[key |-> k, sha |-> s, updated_at |-> FormatTime(0)]>> :
             k \in Refs, s \in StoredShas}
    \cup {<<[key |-> RefBare, sha |-> s1, updated_at |-> FormatTime(0)],
            [key |-> RefTag, sha |-> s2, updated_at |-> FormatTime(0)]>> :
             s1 \in StoredShas, s2 \in StoredShas}

InitFiles ==
    {FileAbsent, File("unreadable", <<>>), File("invalid", <<>>), File("null", <<>>)}
    \cup {File("object", d) : d \in InitDocs}

----------------------------------------------------------------------------
(* The resolver's calls *)

\* lines 147-169 of Resolve: after a cache miss, with the answer of the network
ResolveMiss_MemoFirst(c, file, action, resp, t, fs) ==
    LET target == ResolveTarget(action)
        r == searchTag(resp.body, target.version)
        up == UpdateCacheEntry(file, action, r.sha, t, fs)
        failed(err) == [sha |-> Empty, err |-> err, cache |-> Memoize(c, action, Sha1),
                        file |-> file, panic |-> FALSE, wrote |-> FALSE]
    IN IF resp.kind = "httpError" THEN failed("http")
       ELSE IF resp.kind = "badJSON" THEN failed("json")
       ELSE IF ~r.found THEN failed("not found")
       ELSE [sha |-> IF up.panic THEN Empty ELSE r.sha, err |-> "",
             cache |-> Memoize(c, action, r.sha), file |-> up.file,
             panic |-> up.panic, wrote |-> TRUE]

ResolveMiss(c, file, action, resp, t, fs) ==
    LET target == ResolveTarget(action)
        r == searchTag(resp.body, target.version)
        up == UpdateCacheEntry(file, action, r.sha, t, fs)
        failed(err) == [sha |-> Empty, err |-> err, cache |-> c, file |-> file,
                        panic |-> FALSE, wrote |-> FALSE]
    IN IF resp.kind = "httpError" THEN failed("http")
       ELSE IF resp.kind = "badJSON" THEN failed("json")
       ELSE IF ~r.found THEN failed("not found")
       ELSE \* the error of UpdateCacheEntry is dropped; a panic ends the process
            [sha |-> IF up.panic THEN Empty ELSE r.sha, err |-> "",
             cache |-> Memoize(c, action, r.sha), file |-> up.file,
             panic |-> up.panic, wrote |-> TRUE]

NoTarget == [actionBase |-> Empty, version |-> Empty, url |-> Empty]
NoResponse == [kind |-> "none", body |-> <<>>]

Call(op) ==
    [op |-> op, action |-> Empty, sha |-> Empty, err |-> "", net |-> FALSE,
     panic |-> FALSE, splits |-> <<Empty, Empty>>, target |-> NoTarget,
     resp |-> NoResponse, fs |-> "", m |-> NilMap, matches |-> <<>>,
     dry |-> FALSE, ret |-> <<>>, calls |-> <<>>, errs |-> <<>>, ho |-> FALSE]

\* The processes that share the cache file
Procs == {"p1", "p2"}

\* no call of UpdateCacheEntry under way; start is the cache file that the
\* first of them found
NoUpserts ==
    [of |-> [p \in Procs |->
                [pc |-> "idle", action |-> Empty, sha |-> Empty, m |-> NilMap, err |-> ""]],
     trace |-> <<>>,
     start |-> FileAbsent]

\* The working tree of one repository:
\*   isGit   whether git.IsGitRepo holds for the directory
\*   dir     whether .github/workflows can be listed
\*   files   the entries of .github/workflows in the order of os.ReadDir, each
\*           a regular file with its bytes, a directory, or a file that
\*           cannot be read
Entry(name, kind, bytes) == [name |-> name, kind |-> kind, bytes |-> bytes]

Repo(isGit, dir, files) == [isGit |-> isGit, dir |-> dir, files |-> files]

NoRepo == Repo(FALSE, FALSE, <<>>)

\* what the specifications without a working tree keep
FixIdle ==
    /\ repo = NoRepo
    /\ wfs = <<>>
    /\ scanned = NoRepo
    /\ edits = 0
    /\ workspace = <<>>
    /\ upserts = NoUpserts

\* hist after a call Resolve(action) that returned sha
Observe(h, action, sha, net) ==
    IF action \in DOMAIN h THEN h ELSE MapPut(h, action, [sha |-> sha, net |-> net])

NewSHAResolver ==
    LET c == GetCache(cacheFile)
        filled == IF c.err = "" /\ Cardinality(DOMAIN c.m.kv) > 0
                  THEN [k \in DOMAIN c.m.kv |-> c.m.kv[k].SHA]
                  ELSE NoEntries
    IN /\ proc' = "running"
       /\ cache' = filled
       /\ hist' = NoEntries
       /\ last' = Call("NewSHAResolver")  \* the constructor returns no error
       /\ UNCHANGED <<cacheFile, now, raw, content, repo, wfs, scanned, edits, workspace, upserts>>

\* the outcomes of the file system that a call can meet: only a call that
\* finds the version writes
FsFor(action, resp) ==
    IF resp.kind = "ok" /\ searchTag(resp.body, ResolveTarget(action).version).found
    THEN FsOutcomes ELSE {"ok"}

Resolve(action) ==
    /\ proc = "running"
    /\ UNCHANGED <<raw, content, repo, wfs, scanned, edits, workspace, upserts>>
    /\ IF CacheHit(cache, action)
       THEN /\ last' = [Call("Resolve") EXCEPT !.action = action,
                                                !.sha = MapGet(cache, action)]
            /\ hist' = Observe(hist, action, MapGet(cache, action), FALSE)
            /\ UNCHANGED <<cacheFile, proc, cache, now>>
       ELSE \E resp \in Responses : \E fs \in FsFor(action, resp) :
            \E o \in {ResolveMiss(cache, cacheFile, action, resp, now, fs)} :
               /\ o.wrote => now < MaxTime
               /\ now' = IF o.wrote THEN now + 1 ELSE now
               /\ cache' = o.cache
               /\ cacheFile' = o.file
               /\ proc' = IF o.panic THEN "crashed" ELSE proc
               /\ last' = [Call("Resolve") EXCEPT
                              !.action = action, !.net = TRUE, !.resp = resp,
                              !.target = ResolveTarget(action),
                              !.sha = o.sha, !.err = o.err, !.panic = o.panic,
                              !.fs = IF o.wrote THEN fs ELSE ""]
               /\ hist' = IF o.err = "" /\ ~o.panic
                          THEN Observe(hist, action, o.sha, TRUE) ELSE hist

Init ==
    /\ cacheFile \in InitFiles
    /\ proc = "none"
    /\ cache = NoEntries
    /\ now = 1
    /\ last = Call("init")
    /\ hist = NoEntries
    /\ raw = Empty
    /\ content = Empty
    /\ FixIdle

Next ==
    \/ NewSHAResolver
    \/ \E action \in Refs : Resolve(action)

Spec == Init /\ [][Next]_vars

----------------------------------------------------------------------------
(* Two spellings of one reference, and a cache file that other processes
   change: SpecHit *)

RefMain == <<"o", "/", "r", "@", "m", "a", "i", "n">>      \* "o/r@main"

HitRefs == {RefBare, RefMain}

\* the cache files that this process or another one leaves
HitFiles ==
    {FileAbsent}
    \cup {File("object", MarshalIndent(MapPut(NoEntries, k, hashEntry(s, FormatTime(0))))) :
             k \in HitRefs, s \in {Sha1, Sha2}}

InitHit ==
    /\ cacheFile \in HitFiles
    /\ proc = "none"
    /\ cache = NoEntries
    /\ now = 1
    /\ last = Call("init")
    /\ hist = NoEntries
    /\ raw = Empty
    /\ content = Empty
    /\ FixIdle

\* another process deletes cache.json or writes its own over it
StoreChanged(file) ==
    /\ file # cacheFile
    /\ cacheFile' = file
    /\ last' = Call("elsewhere")
    /\ UNCHANGED <<proc, cache, now, hist, raw, content, repo, wfs, scanned, edits,
                   workspace, upserts>>

NextHit ==
    \/ NewSHAResolver
    \/ \E action \in HitRefs : Resolve(action)
    \/ \E file \in HitFiles : StoreChanged(file)

SpecHit == InitHit /\ [][NextHit]_vars

----------------------------------------------------------------------------
(* The cache package called on its own: SpecCache *)

KeyBad == <<"o", "/", BadByte>>     \* a key that is not valid UTF-8
ShaBad == <<BadByte>>

CacheKeys == Refs \cup {KeyBad}
CacheShas == {Sha1, Sha2, ShaBad}

GetCacheCall ==
    LET c == GetCache(cacheFile)
    IN /\ last' = [Call("GetCache") EXCEPT !.m = c.m, !.err = c.err]
       /\ UNCHANGED <<cacheFile, proc, cache, now, hist, raw, content, repo, wfs, scanned, edits, workspace, upserts>>

UpdateCacheEntryCall(action, newSHA, fs) ==
    LET up == UpdateCacheEntry(cacheFile, action, newSHA, now, fs)
    IN /\ now < MaxTime
       /\ now' = now + 1
       /\ cacheFile' = up.file
       /\ proc' = IF up.panic THEN "crashed" ELSE proc
       /\ last' = [Call("UpdateCacheEntry") EXCEPT
                      !.action = action, !.sha = newSHA, !.err = up.err,
                      !.panic = up.panic, !.fs = fs]
       /\ UNCHANGED <<cache, hist, raw, content, repo, wfs, scanned, edits, workspace, upserts>>

NextCache ==
    \/ GetCacheCall
    \/ \E action \in CacheKeys, newSHA \in CacheShas, fs \in FsOutcomes :
          UpdateCacheEntryCall(action, newSHA, fs)

SpecCache == Init /\ [][NextCache]_vars

----------------------------------------------------------------------------
(* Two processes in UpdateCacheEntry at the same time: SpecRace *)

\* UpdateCacheEntry up to its call of saveCache: the map to save, the error
\* and whether the assignment panicked
UpsertLoaded(file, action, newSHA, t) ==
    LET l == loadCache(file)
    IN IF l.err # "" THEN [m |-> NilMap, err |-> l.err, panic |-> FALSE]
       ELSE IF l.m.isNil THEN [m |-> NilMap, err |-> "", panic |-> TRUE]
       ELSE [m |-> GoMap(MapPut(l.m.kv, action, hashEntry(newSHA, FormatTime(t)))),
             err |-> "", panic |-> FALSE]

\* the cache files that the two processes find: none, the text null, and a
\* file that one of them wrote before
RaceFiles ==
    {FileAbsent, File("null", <<>>),
     File("object", MarshalIndent(MapPut(NoEntries, RefTag, hashEntry(Sha1, FormatTime(0)))))}

InitRace ==
    /\ cacheFile \in RaceFiles
    /\ proc = "none"
    /\ cache = NoEntries
    /\ now = 1
    /\ last = Call("init")
    /\ hist = NoEntries
    /\ raw = Empty
    /\ content = Empty
    /\ repo = NoRepo
    /\ wfs = <<>>
    /\ scanned = NoRepo
    /\ edits = 0
    /\ workspace = <<>>
    /\ upserts = [NoUpserts EXCEPT !.start = cacheFile]

\* process p enters UpdateCacheEntry(dir, action, newSHA) and runs it up to
\* the call of saveCache
UpsertLoad(p, action, newSHA) ==
    /\ upserts.of[p].pc = "idle"
    /\ \E ld \in {UpsertLoaded(cacheFile, action, newSHA, now)} :
          /\ upserts' = [upserts EXCEPT
                            !.of[p] = [pc |-> IF ld.panic THEN "crashed"
                                              ELSE IF ld.err # "" THEN "done"
                                              ELSE "loaded",
                                       action |-> action, sha |-> newSHA,
                                       m |-> ld.m, err |-> ld.err],
                            !.trace = Append(@, <<p, "load">>)]
          /\ last' = [Call("loadCache") EXCEPT
                         !.action = action, !.sha = newSHA, !.m = ld.m,
                         !.err = ld.err, !.panic = ld.panic]
    /\ UNCHANGED <<cacheFile, proc, cache, now, hist, raw, content, repo, wfs, scanned,
                   edits, workspace>>

\* process p runs saveCache and returns from UpdateCacheEntry
UpsertSave(p, fs) ==
    /\ upserts.of[p].pc = "loaded"
    /\ \E sv \in {saveCache(cacheFile, upserts.of[p].m, fs)} :
          /\ cacheFile' = sv.file
          /\ upserts' = [upserts EXCEPT
                            !.of[p].pc = "done", !.of[p].err = sv.err,
                            !.trace = Append(@, <<p, "save">>)]
          /\ last' = [Call("saveCache") EXCEPT
                         !.action = upserts.of[p].action, !.sha = upserts.of[p].sha,
                         !.m = upserts.of[p].m, !.err = sv.err, !.fs = fs]
    /\ UNCHANGED <<proc, cache, now, hist, raw, content, repo, wfs, scanned, edits,
                   workspace>>

NextRace ==
    \E p \in Procs :
        \/ \E action \in Refs, newSHA \in {Sha1, Sha2} : UpsertLoad(p, action, newSHA)
        \/ \E fs \in FsOutcomes : UpsertSave(p, fs)

SpecRace == InitRace /\ [][NextRace]_vars

----------------------------------------------------------------------------
(* The parsing of a reference on its own: SpecParse *)

ParseBytes == {"o", "/", "@", "v", "V", "1", "."}

RawInputs == SeqsUpTo(ParseBytes, MaxRawLen)

InitParse ==
    /\ cacheFile = FileAbsent
    /\ proc = "none"
    /\ cache = NoEntries
    /\ now = 1
    /\ last = Call("init")
    /\ hist = NoEntries
    /\ raw \in RawInputs
    /\ content = Empty
    /\ FixIdle

\* lines 137-145 of Resolve applied to raw
ParseReference ==
    /\ last' = [Call("parse") EXCEPT !.action = raw,
                                      !.splits = splitRawAction(raw),
                                      !.target = ResolveTarget(raw)]
    /\ UNCHANGED <<cacheFile, proc, cache, now, hist, raw, content, repo, wfs, scanned, edits, workspace, upserts>>

NextParse == ParseReference

SpecParse == InitParse /\ [][NextParse]_vars

----------------------------------------------------------------------------
(* The scanner on its own: SpecScan *)

ScanPieces ==
    {<<"a", "/", "b", "@", "v", "1">>,
     <<"a", "/", "b", "@", "1", ".", "1">>,
     <<"a", "/", "b", "@", "m", "a", "i", "n">>,
     <<"a", "-", "/", "b", "@", "d", "e", "v">>,
     <<"a", "/", "b", "@", "m", "a", "s", "t", "e", "r">>,
     <<"a">>, <<"/">>, <<"@">>, <<"v">>, <<"1">>, <<".">>, <<" ">>, <<"\n">>}

RECURSIVE Concat(_)
Concat(pieces) == IF pieces = <<>> THEN <<>> ELSE Head(pieces) \o Concat(Tail(pieces))

Contents == {Concat(ps) : ps \in SeqsUpTo(ScanPieces, MaxPieces)}

InitScan ==
    /\ cacheFile = FileAbsent
    /\ proc = "none"
    /\ cache = NoEntries
    /\ now = 1
    /\ last = Call("init")
    /\ hist = NoEntries
    /\ raw = Empty
    /\ content \in Contents
    /\ FixIdle

ScanContentWithPositionCall ==
    LET r == ScanContentWithPosition(content)
    IN /\ last' = [Call("ScanContentWithPosition") EXCEPT
                      !.matches = r.results, !.err = r.err]
       /\ UNCHANGED <<cacheFile, proc, cache, now, hist, raw, content, repo, wfs, scanned, edits, workspace, upserts>>

NextScan == ScanContentWithPositionCall

SpecScan == InitScan /\ [][NextScan]_vars

----------------------------------------------------------------------------
(* package scanner: AssembleWorkflow, AuditRepository and the applier *)

\* strings.Join
RECURSIVE Join(_, _)
Join(elems, sep) ==
    IF elems = <<>> THEN Empty
    ELSE IF Len(elems) = 1 THEN elems[1]
    ELSE elems[1] \o sep \o Join(Tail(elems), sep)

\* strings.Index: the offset of the first occurrence of substr in s, or -1
Index(s, substr) ==
    LET at == {i \in 0..Len(s) : HasAt(s, i, substr)}
    IN IF at = {} THEN NoMatch ELSE CHOOSE i \in at : \A j \in at : i <= j

\* strings.Contains
Contains(s, substr) == Index(s, substr) # NoMatch

\* strings.Replace(s, old, new, 1)
Replace(s, old, new) ==
    LET i == Index(s, old)
    IN IF i = NoMatch THEN s
       ELSE SubSeq(s, 1, i) \o new \o SubSeq(s, i + Len(old) + 1, Len(s))

\* strings.SplitN(s, sep, 2)
SplitN(s, sep) ==
    LET i == Index(s, <<sep>>)
    IN IF i = NoMatch THEN <<s>>
       ELSE <<SubSeq(s, 1, i), SubSeq(s, i + 2, Len(s))>>

SHA256NotAvailable == <<"N", "/", "A">>

\* Finding, without the two texts of the report (Description, FixMsg)
Finding(line, column, fixSHA, action, version, original) ==
    [Line |-> line, Column |-> column, FixSHA |-> fixSHA,
     Action |-> action, Version |-> version, Original |-> original]

Workflow(name, filePath, issues) ==
    [Name |-> name, FilePath |-> filePath, Issues |-> issues]

\* the commit id that upstream holds for every reference it knows
PinSha == <<"5", "e", "0", "9", "c">>

\* what upstream answers to one lookup: it knows the version, or it does not
Outcomes == {"found", "missing"}

\* the listing that http.Get gives for a reference under an outcome
Upstream(action, out) ==
    IF out = "found"
    THEN [kind |-> "ok",
          body |-> <<BranchOrTag(ResolveTarget(action).version, PinSha)>>]
    ELSE [kind |-> "ok", body |-> <<>>]

\* the in-memory map that NewSHAResolver builds from the cache file
LoadedCache(file) ==
    LET c == GetCache(file)
    IN IF c.err = "" /\ Cardinality(DOMAIN c.m.kv) > 0
       THEN [k \in DOMAIN c.m.kv |-> c.m.kv[k].SHA]
       ELSE NoEntries

\* a resolver value: its in-memory map, and the cache file it writes
Resolver(c, file) == [cache |-> c, file |-> file]

\* res.Resolve(action): the whole of Resolve, with the answer of upstream
\* for the case of a miss
resResolve(res, action, out, t) ==
    IF CacheHit(res.cache, action)
    THEN [sha |-> res.cache[action], err |-> "", cache |-> res.cache,
          file |-> res.file, panic |-> FALSE, wrote |-> FALSE]
    ELSE ResolveMiss(res.cache, res.file, action, Upstream(action, out), t, "ok")

\* lines 36-40 of AssembleWorkflow: the text that is given to Resolve
OriginalOf(m) == SplitN(m.Text, "@")[1] \o <<"@">> \o SplitN(m.Text, "@")[2]

\* lines 44-61 of AssembleWorkflow: the finding for match m, r being what
\* Resolve returned
FindingFor(m, r) ==
    Finding(m.Line, m.Col,
            IF r.err # "" THEN SHA256NotAvailable ELSE r.sha,
            SplitN(m.Text, "@")[1], SplitN(m.Text, "@")[2], OriginalOf(m))

\* The loop of AssembleWorkflow from match k on.  outs[at + k] is what
\* upstream answers to the lookup for match k; AssembleAfter is the rest of
\* the loop body once Resolve has returned r.
RECURSIVE AssembleFrom(_, _, _, _, _, _)
RECURSIVE AssembleAfter(_, _, _, _, _, _, _)
AssembleFrom(matches, k, res, outs, at, t) ==
    IF k > Len(matches)
    THEN [issues |-> <<>>, calls |-> <<>>, res |-> res, panic |-> FALSE]
    ELSE AssembleAfter(matches, k, res, outs, at, t,
                       resResolve(res, OriginalOf(matches[k]), outs[at + k], t))

AssembleAfter(matches, k, res, outs, at, t, r) ==
    IF r.panic
    THEN [issues |-> <<>>, calls |-> <<>>, res |-> res, panic |-> TRUE]
    ELSE [AssembleFrom(matches, k + 1, Resolver(r.cache, r.file), outs, at, t)
             EXCEPT !.issues = <<FindingFor(matches[k], r)>> \o @,
                    !.calls = <<[sha |-> r.sha, err |-> r.err]>> \o @]

\* the value AssembleWorkflow returns: the workflow, the error, the resolver
\* after the calls, what each Resolve returned, and whether one panicked
Assembled(filePath, a) ==
    [wf |-> Workflow(filePath, filePath, a.issues), err |-> "", res |-> a.res,
     calls |-> a.calls, panic |-> a.panic]

AssembleWorkflow_DropUnresolved(res, bytes, filePath, outs, at, t) ==
    [Assembled(filePath, AssembleFrom(ScanContentWithPosition(bytes).results, 1, res,
                                      outs, at, t))
        EXCEPT !.wf.Issues = SelectSeq(@, LAMBDA f : f.FixSHA # SHA256NotAvailable)]

\* AssembleWorkflow(res, content, fileName, filePath)
AssembleWorkflow(res, bytes, filePath, outs, at, t) ==
    IF ScanContentWithPosition(bytes).err # ""
    THEN [wf |-> Workflow(Empty, Empty, <<>>), err |-> "scan", res |-> res,
          calls |-> <<>>, panic |-> FALSE]
    ELSE Assembled(filePath, AssembleFrom(ScanContentWithPosition(bytes).results, 1, res,
                                          outs, at, t))

EntryNames(r) == {r.files[i].name : i \in 1..Len(r.files)}

EntryOf(r, name) == r.files[CHOOSE i \in 1..Len(r.files) : r.files[i].name = name]

\* the repository after the bytes of a file were replaced
WithBytes(r, name, bytes) ==
    [r EXCEPT !.files = [i \in 1..Len(r.files) |->
                            IF r.files[i].name = name
                            THEN [r.files[i] EXCEPT !.bytes = bytes]
                            ELSE r.files[i]]]

\* os.ReadFile of a workflow file
ReadFile(r, name) ==
    IF name \notin EntryNames(r) THEN [content |-> Empty, err |-> "not exist"]
    ELSE IF EntryOf(r, name).kind = "dir" THEN [content |-> Empty, err |-> "EISDIR"]
    ELSE IF EntryOf(r, name).kind = "unreadable" THEN [content |-> Empty, err |-> "os"]
    ELSE [content |-> EntryOf(r, name).bytes, err |-> ""]

\* what the file system does to os.WriteFile: it succeeds, it cannot open the
\* file, or it fails after the file was truncated
WriteOutcomes == {"ok", "openFails", "shortWrite"}

\* os.WriteFile(path, output, os.ModeAppend): the repository after the call
WriteFile(r, name, output, io) ==
    IF io = "ok" THEN [repo |-> WithBytes(r, name, output), err |-> ""]
    ELSE IF io = "openFails" THEN [repo |-> r, err |-> "writing"]
    ELSE [repo |-> WithBytes(r, name, Empty), err |-> "writing"]

\* the order of sort.Slice in ApplyFixesInFile
IssueLess(f, g) ==
    IF f.Line # g.Line THEN f.Line < g.Line ELSE f.Column < g.Column

\* sort.Slice(wf.Issues, ...): no two findings of a scan have the same line
\* and column, so the order is determined
RECURSIVE SortIssues(_)
SortIssues(issues) ==
    IF issues = <<>> THEN <<>>
    ELSE LET least == CHOOSE i \in 1..Len(issues) :
                         \A j \in 1..Len(issues) :
                             j = i \/ IssueLess(issues[i], issues[j])
                                   \/ (~IssueLess(issues[j], issues[i]) /\ i < j)
         IN <<issues[least]>>
            \o SortIssues([j \in 1..(Len(issues) - 1) |->
                              IF j < least THEN issues[j] ELSE issues[j + 1]])

\* a pinned reference with its comment on a line of its own
Pinned_OwnLine(issue) ==
    issue.Action \o <<"@">> \o issue.FixSHA \o <<"\n", "#", " ">> \o issue.Version

\* fmt.Sprintf("%s@%s # %s", issue.Action, issue.FixSHA, issue.Version)
Pinned(issue) ==
    issue.Action \o <<"@">> \o issue.FixSHA \o <<" ", "#", " ">> \o issue.Version

\* step 3 of ApplyFixesInFile from issue k on: the lines and the error
RECURSIVE ApplyFrom(_, _, _)
ApplyFrom(lines, issues, k) ==
    IF k > Len(issues) THEN [lines |-> lines, err |-> ""]
    ELSE LET issue == issues[k]
             idx == issue.Line - 1
             line == lines[idx + 1]
             prefix == SubSeq(line, 1, issue.Column - 1)
             suffix == SubSeq(line, issue.Column, Len(line))
             newSuffix == Replace(suffix, issue.Original, Pinned(issue))
         IN IF issue.FixSHA = SHA256NotAvailable THEN ApplyFrom(lines, issues, k + 1)
            ELSE IF idx < 0 \/ idx >= Len(lines)
            THEN [lines |-> lines, err |-> "invalid line"]
            ELSE IF issue.Column - 1 > Len(line)
            THEN [lines |-> lines, err |-> "column out of range"]
            ELSE IF ~Contains(suffix, issue.Original)
            THEN [lines |-> lines, err |-> "could not find"]
            ELSE ApplyFrom([lines EXCEPT ![idx + 1] = prefix \o newSuffix],
                           issues, k + 1)

\* what ApplyFixesInFile returns after os.WriteFile returned w
Written(w) == [repo |-> w.repo, err |-> w.err, wrote |-> TRUE]

WriteBack_WriteOnError(r, filePath, isDryRun, io, applied) ==
    IF isDryRun THEN [repo |-> r, err |-> applied.err, wrote |-> FALSE]
    ELSE [Written(WriteFile(r, filePath, Join(applied.lines, <<"\n">>), io))
             EXCEPT !.err = IF applied.err # "" THEN applied.err ELSE @]

WriteBack_IgnoreDryRun(r, filePath, isDryRun, io, applied) ==
    IF applied.err # "" THEN [repo |-> r, err |-> applied.err, wrote |-> FALSE]
    ELSE Written(WriteFile(r, filePath, Join(applied.lines, <<"\n">>), io))

\* step 4 of ApplyFixesInFile, applied being what step 3 gave
WriteBack(r, filePath, isDryRun, io, applied) ==
    IF applied.err # "" THEN [repo |-> r, err |-> applied.err, wrote |-> FALSE]
    ELSE IF isDryRun THEN [repo |-> r, err |-> "", wrote |-> FALSE]
    ELSE Written(WriteFile(r, filePath, Join(applied.lines, <<"\n">>), io))

\* ApplyFixesInFile(wf, isDryRun): the repository after the call, the error,
\* and whether os.WriteFile was called
ApplyFixesInFile(r, wf, isDryRun, io) ==
    IF ReadFile(r, wf.FilePath).err # ""
    THEN [repo |-> r, err |-> "reading", wrote |-> FALSE]
    ELSE WriteBack(r, wf.FilePath, isDryRun, io,
                   ApplyFrom(Split(ReadFile(r, wf.FilePath).content, "\n"),
                             SortIssues(wf.Issues), 1))

\* the number of lookups that an audit of the entries from k on can make
RECURSIVE CountMatches(_, _)
CountMatches(files, k) ==
    IF k > Len(files) THEN 0
    ELSE (IF files[k].kind = "file"
          THEN Len(ScanContentWithPosition(files[k].bytes).results) ELSE 0)
         + CountMatches(files, k + 1)

\* lines 109-111 of AuditRepository: a workflow with findings is kept
Collect(wf, rest) ==
    IF rest.err # "" \/ rest.panic THEN rest
    ELSE [rest EXCEPT !.wfs = (IF Len(wf.Issues) > 0 THEN <<wf>> ELSE <<>>) \o @]

\* The loop of AuditRepository from entry k on; AuditAfter is the rest of the
\* loop body once AssembleWorkflow has returned a.
RECURSIVE AuditFrom(_, _, _, _, _, _)
RECURSIVE AuditAfter(_, _, _, _, _, _)
AuditFrom(r, k, res, outs, at, t) ==
    IF k > Len(r.files)
    THEN [wfs |-> <<>>, err |-> "", res |-> res, panic |-> FALSE]
    ELSE IF ReadFile(r, r.files[k].name).err = "EISDIR"
    THEN AuditFrom(r, k + 1, res, outs, at, t)
    ELSE IF ReadFile(r, r.files[k].name).err # ""
    THEN [wfs |-> <<>>, err |-> "file error", res |-> res, panic |-> FALSE]
    ELSE AuditAfter(r, k, outs, at, t,
                    AssembleWorkflow(res, ReadFile(r, r.files[k].name).content,
                                     r.files[k].name, outs, at, t))

AuditAfter(r, k, outs, at, t, a) ==
    IF a.panic THEN [wfs |-> <<>>, err |-> "", res |-> a.res, panic |-> TRUE]
    ELSE Collect(a.wf, AuditFrom(r, k + 1, a.res, outs, at + Len(a.calls), t))

\* the value AuditRepository returns: the workflows, the error, the cache
\* file after the calls of the resolver, and whether the process panicked
Audited(a) == [wfs |-> a.wfs, err |-> a.err, file |-> a.res.file, panic |-> a.panic]

\* AuditRepository(path)
AuditRepository(r, file, outs, t) ==
    IF ~r.isGit
    THEN [wfs |-> <<>>, err |-> "not a Git repository", file |-> file, panic |-> FALSE]
    ELSE IF ~r.dir
    THEN [wfs |-> <<>>, err |-> "file error", file |-> file, panic |-> FALSE]
    ELSE Audited(AuditFrom(r, 1, Resolver(LoadedCache(file), file), outs, 0, t))

\* The loop of AutoFixRepository from workflow k on: the error that
\* ApplyFixesInFile returns (ap.err) is not looked at.  errs keeps what each
\* call returned.
RECURSIVE FixFrom(_, _, _, _, _)
RECURSIVE FixAfter(_, _, _, _, _)
FixFrom(r, ws, k, isDryRun, ios) ==
    IF k > Len(ws) THEN [repo |-> r, errs |-> <<>>, wrote |-> FALSE]
    ELSE FixAfter(ws, k, isDryRun, ios, ApplyFixesInFile(r, ws[k], isDryRun, ios[k]))

FixAfter(ws, k, isDryRun, ios, ap) ==
    [FixFrom(ap.repo, ws, k + 1, isDryRun, ios)
        EXCEPT !.errs = <<ap.err>> \o @, !.wrote = ap.wrote \/ @]

\* what AutoFixRepository returns after the loop over the workflows of a
Fixed(a, fx) ==
    [repo |-> fx.repo, file |-> a.file, err |-> "", panic |-> FALSE, wfs |-> a.wfs,
     errs |-> fx.errs, wrote |-> fx.wrote]

\* lines 238-251 of AutoFixRepository, a being what AuditRepository returned
FixAudited(r, isDryRun, ios, a) ==
    IF a.panic
    THEN [repo |-> r, file |-> a.file, err |-> "", panic |-> TRUE, wfs |-> <<>>,
          errs |-> <<>>, wrote |-> FALSE]
    ELSE IF a.err # ""
    THEN [repo |-> r, file |-> a.file, err |-> a.err, panic |-> FALSE, wfs |-> <<>>,
          errs |-> <<>>, wrote |-> FALSE]
    ELSE Fixed(a, FixFrom(r, a.wfs, 1, isDryRun, ios))

\* AutoFixRepository(path, isDryRun): the repository and the cache file after
\* the call, the error returned, (errs) what each ApplyFixesInFile returned,
\* and whether os.WriteFile was called
AutoFixRepository(r, file, isDryRun, outs, ios, t) ==
    FixAudited(r, isDryRun, ios, AuditRepository(r, file, outs, t))

----------------------------------------------------------------------------
(* Audit and remediation of a working tree: SpecAssemble, SpecFix, SpecRepo *)

\* the pieces of a workflow file: two references, the second one beginning
\* with the version of the first, and the line break
PieceX == <<"a", "/", "b", "@", "v", "1">>            \* a/b@v1
PieceZ == <<"v", "1", "/", "b", "@", "v", "2">>       \* v1/b@v2

FixPieces == {PieceX, PieceZ, <<"\n">>}

\* a line where the text after the first reference continues its version
\* into the text of the second one: a/b@v1/b@v2 v1/b@v2
Straddle == PieceX \o <<"/", "b", "@", "v", "2", " ">> \o PieceZ

\* a line with one reference and then another one twice: v1/b@v2a/b@v1a/b@v1
Triple == PieceZ \o PieceX \o PieceX

\* two lines with a reference each
TwoLines == PieceX \o <<"\n">> \o PieceX

\* one reference, and after it text that continues its version: a/b@v1/b@v2
Chained == PieceX \o <<"/", "b", "@", "v", "2">>

FixContents ==
    {Concat(ps) : ps \in SeqsUpTo(FixPieces, MaxFixPieces)}
    \cup {Straddle, Triple, TwoLines, Chained}

FileNames == <<"a.yml", "b.yml", "c.yml", "d.yml">>

\* the entries a workflow directory can hold
EntryKinds ==
    {[kind |-> "dir", bytes |-> Empty], [kind |-> "unreadable", bytes |-> Empty],
     [kind |-> "file", bytes |-> Empty], [kind |-> "file", bytes |-> PieceX]}

Named(es) == [i \in 1..Len(es) |-> Entry(FileNames[i], es[i].kind, es[i].bytes)]

Repos ==
    {Repo(g, TRUE, Named(es)) : g \in BOOLEAN, es \in SeqsUpTo(EntryKinds, MaxFiles)}
    \cup {Repo(g, FALSE, <<>>) : g \in BOOLEAN}

\* a git working tree with one workflow file
OneFile == {Repo(TRUE, TRUE, <<Entry(FileNames[1], "file", b)>>) : b \in FixContents}

InitTree(files, trees) ==
    /\ cacheFile \in files
    /\ proc = "none"
    /\ cache = NoEntries
    /\ now = 1
    /\ last = Call("init")
    /\ hist = NoEntries
    /\ raw = Empty
    /\ content = Empty
    /\ repo \in trees
    /\ wfs = <<>>
    /\ scanned = NoRepo
    /\ edits = 0
    /\ workspace = <<>>
    /\ upserts = NoUpserts

\* a cache file as an earlier run left it: it holds the commit id of a/b@v1
WarmFile == UpdateCacheEntry(FileAbsent, PieceX, PinSha, 1, "ok").file

InitAssemble == InitTree({FileAbsent, File("null", <<>>), WarmFile}, OneFile)

InitFix == InitTree({FileAbsent}, OneFile)

InitRepo == InitTree({FileAbsent}, Repos)

\* AssembleWorkflow on the content of entry k, with a resolver just built
AssembleWorkflowCall(k) ==
    /\ proc # "crashed"
    /\ k \in 1..Len(repo.files)
    /\ repo.files[k].kind = "file"
    /\ \E outs \in [1..Len(ScanContentWithPosition(repo.files[k].bytes).results)
                      -> Outcomes] :
       \E a \in {AssembleWorkflow(Resolver(LoadedCache(cacheFile), cacheFile),
                                  repo.files[k].bytes, repo.files[k].name, outs, 0, now)} :
          /\ cacheFile' = a.res.file
          /\ proc' = IF a.panic THEN "crashed" ELSE proc
          /\ last' = [Call("AssembleWorkflow") EXCEPT
                         !.err = a.err, !.panic = a.panic, !.ret = <<a.wf>>,
                         !.calls = a.calls,
                         !.matches = ScanContentWithPosition(repo.files[k].bytes).results]
    /\ UNCHANGED <<cache, now, hist, raw, content, repo, wfs, scanned, edits, workspace, upserts>>

AuditRepositoryCall ==
    /\ proc # "crashed"
    /\ \E outs \in [1..CountMatches(repo.files, 1) -> Outcomes] :
       \E a \in {AuditRepository(repo, cacheFile, outs, now)} :
          /\ cacheFile' = a.file
          /\ proc' = IF a.panic THEN "crashed" ELSE proc
          /\ wfs' = IF a.panic THEN wfs ELSE a.wfs
          /\ scanned' = IF a.panic THEN scanned ELSE repo
          /\ last' = [Call("AuditRepository") EXCEPT
                         !.err = a.err, !.panic = a.panic, !.ret = a.wfs]
    /\ UNCHANGED <<cache, now, hist, raw, content, repo, edits, workspace, upserts>>

\* ApplyFixesInFile on workflow k of the last audit
ApplyFixesInFileCall(k, isDryRun) ==
    /\ proc # "crashed"
    /\ k \in 1..Len(wfs)
    /\ \E ok \in {ApplyFixesInFile(repo, wfs[k], isDryRun, "ok")} :
       \E io \in IF ok.wrote THEN WriteOutcomes ELSE {"ok"} :
       \E ap \in {IF io = "ok" THEN ok ELSE ApplyFixesInFile(repo, wfs[k], isDryRun, io)} :
          /\ (ap.wrote /\ ap.err = "") => edits < MaxEdits
          /\ repo' = ap.repo
          /\ edits' = IF ap.wrote /\ ap.err = "" THEN edits + 1 ELSE edits
          /\ last' = [Call("ApplyFixesInFile") EXCEPT
                         !.err = ap.err, !.dry = isDryRun, !.ret = <<wfs[k]>>,
                         !.fs = IF ap.wrote THEN io ELSE ""]
    /\ UNCHANGED <<cacheFile, proc, cache, now, hist, raw, content, wfs, scanned, workspace, upserts>>

\* what os.WriteFile does in each call of one run: at most one write fails
WriteRuns(n) ==
    {[k \in 1..n |-> "ok"]}
    \cup {[k \in 1..n |-> IF k = failAt THEN io ELSE "ok"] :
             failAt \in 1..n, io \in WriteOutcomes \ {"ok"}}

AutoFixRepositoryCall(isDryRun) ==
    /\ proc # "crashed"
    /\ \E outs \in [1..CountMatches(repo.files, 1) -> Outcomes] :
       \E ios \in IF isDryRun THEN {[k \in 1..Len(repo.files) |-> "ok"]}
                  ELSE WriteRuns(Len(repo.files)) :
       \E fx \in {AutoFixRepository(repo, cacheFile, isDryRun, outs, ios, now)} :
          /\ \A k \in 1..Len(repo.files) :
                ios[k] # "ok" => ~isDryRun /\ k <= Len(fx.errs) /\ fx.errs[k] = "writing"
          /\ fx.wrote => edits < MaxEdits
          /\ repo' = fx.repo
          /\ edits' = IF fx.wrote THEN edits + 1 ELSE edits
          /\ cacheFile' = fx.file
          /\ proc' = IF fx.panic THEN "crashed" ELSE proc
          /\ last' = [Call("AutoFixRepository") EXCEPT
                         !.err = fx.err, !.panic = fx.panic, !.dry = isDryRun,
                         !.ret = fx.wfs, !.errs = fx.errs]
    /\ UNCHANGED <<cache, now, hist, raw, content, wfs, scanned, workspace, upserts>>

\* the bytes of a file after another process changed it
Edited(bytes, edit) ==
    IF edit = "dropLastByte" THEN SubSeq(bytes, 1, Len(bytes) - 1)
    ELSE IF Index(bytes, <<"\n">>) = NoMatch THEN Empty
    ELSE SubSeq(bytes, Index(bytes, <<"\n">>) + 2, Len(bytes))

\* another process changes entry k between two calls: it drops the last
\* byte or the first line of the file, or makes the file unreadable
ExternalEdit(k, edit) ==
    /\ edits < MaxEdits
    /\ k \in 1..Len(repo.files)
    /\ repo.files[k].kind = "file"
    /\ edit \in {"dropLastByte", "dropFirstLine"} => repo.files[k].bytes # Empty
    /\ repo' = [repo EXCEPT !.files[k] =
                   IF edit = "chmod" THEN Entry(@.name, "unreadable", Empty)
                   ELSE Entry(@.name, "file", Edited(@.bytes, edit))]
    /\ edits' = edits + 1
    /\ last' = Call("ExternalEdit")
    /\ UNCHANGED <<cacheFile, proc, cache, now, hist, raw, content, wfs, scanned, workspace, upserts>>

NextAssemble == \E k \in 1..MaxFiles : AssembleWorkflowCall(k)

NextFix ==
    \/ AuditRepositoryCall
    \/ \E k \in 1..MaxFiles, isDryRun \in BOOLEAN : ApplyFixesInFileCall(k, isDryRun)
    \/ \E k \in 1..MaxFiles, edit \in {"dropLastByte", "dropFirstLine", "chmod"} :
          ExternalEdit(k, edit)

NextRepo ==
    \/ AuditRepositoryCall
    \/ \E k \in 1..MaxFiles, isDryRun \in BOOLEAN : ApplyFixesInFileCall(k, isDryRun)
    \/ \E isDryRun \in BOOLEAN : AutoFixRepositoryCall(isDryRun)

SpecAssemble == InitAssemble /\ [][NextAssemble]_vars

SpecFix == InitFix /\ [][NextFix]_vars

SpecRepo == InitRepo /\ [][NextRepo]_vars

----------------------------------------------------------------------------
(* The traversal of a workspace: ScanBranch, ScanRepos and SpecInventory *)

\* the concatenation of the sequences of ss
RECURSIVE Flatten(_)
Flatten(ss) == IF ss = <<>> THEN <<>> ELSE Head(ss) \o Flatten(Tail(ss))

\* GitRepository{name, absPath}, with the working tree found at absPath, the
\* branches that git lists there and the branch that is checked out (git
\* lists it first here)
GitRepository(name, tree, branches) ==
    [name |-> name, absPath |-> <<"ws", name>>, tree |-> tree, branches |-> branches,
     head |-> branches[1]]

\* the working tree that a checkout of branch b would leave in g: the other
\* branches hold the same entries before any reference was written to them
Committed(g, b) ==
    IF b = g.head \/ b = "HEAD" THEN g.tree
    ELSE [g.tree EXCEPT
             !.files = [i \in 1..Len(g.tree.files) |->
                           [g.tree.files[i] EXCEPT !.bytes = Empty]]]

\* repo.ListBranches(repo.absPath): git fails outside a repository
ListBranches(g) ==
    IF ~g.tree.isGit THEN [branches |-> <<>>, err |-> "git"]
    ELSE [branches |-> g.branches, err |-> ""]

\* ListFiles(loc): the names of the entries of the workflow directory
ListFiles(r) ==
    IF ~r.dir THEN [files |-> <<>>, err |-> "os"]
    ELSE [files |-> [i \in 1..Len(r.files) |-> r.files[i].name], err |-> ""]

\* ScanContent(content, findRegex): the texts of regex.FindAll
ScanContent(bytes) ==
    [matches |-> [k \in 1..Len(FindAllIndex(bytes)) |->
                     SubSeq(bytes, FindAllIndex(bytes)[k][1] + 1, FindAllIndex(bytes)[k][2])],
     err |-> ""]

InventoryRecord(repository, branch, filePath, matches) ==
    [Repository |-> repository, Branch |-> branch, FilePath |-> filePath,
     Matches |-> matches]

\* the loop of ScanBranch from file k on: the records appended
RECURSIVE ScanFilesFrom(_, _, _, _)
ScanFilesFrom(branch, g, fileNames, k) ==
    IF k > Len(fileNames) THEN <<>>
    ELSE IF ReadFile(g.tree, fileNames[k]).err # ""
    THEN ScanFilesFrom(branch, g, fileNames, k + 1)
    ELSE IF ScanContent(ReadFile(g.tree, fileNames[k]).content).matches = <<>>
    THEN ScanFilesFrom(branch, g, fileNames, k + 1)
    ELSE <<InventoryRecord(g.name, branch,
                           g.absPath \o <<".github", "workflows", fileNames[k]>>,
                           ScanContent(ReadFile(g.tree, fileNames[k]).content).matches)>>
         \o ScanFilesFrom(branch, g, fileNames, k + 1)

\* ScanBranch(branch, repo, findRegex, searchPath): nil, or an inventory
ScanBranch(branch, g) ==
    IF ListFiles(g.tree).err # "" THEN [isNil |-> TRUE, Records |-> <<>>]
    ELSE [isNil |-> FALSE,
          Records |-> ScanFilesFrom(branch, g, ListFiles(g.tree).files, 1)]

\* the inner loop of ScanRepos from branch k on
RECURSIVE ScanBranchesFrom(_, _, _)
ScanBranchesFrom(g, branches, k) ==
    IF k > Len(branches) THEN <<>>
    ELSE (IF ScanBranch(branches[k], g).isNil THEN <<>>
          ELSE ScanBranch(branches[k], g).Records)
         \o ScanBranchesFrom(g, branches, k + 1)

\* the outer loop of ScanRepos from repository k on
RECURSIVE ScanReposFrom(_, _, _)
ScanReposFrom(repos, k, ho) ==
    IF k > Len(repos) THEN <<>>
    ELSE (IF ListBranches(repos[k]).err # "" THEN <<>>
          ELSE ScanBranchesFrom(repos[k],
                                IF ho THEN <<"HEAD">> ELSE ListBranches(repos[k]).branches,
                                1))
         \o ScanReposFrom(repos, k + 1, ho)

ScanRepos_AbortOnFailure(repos, ho) ==
    IF \E k \in 1..Len(repos) :
          ListBranches(repos[k]).err # "" \/ ListFiles(repos[k].tree).err # ""
    THEN [Records |-> <<>>, err |-> "scan", repos |-> repos]
    ELSE [Records |-> ScanReposFrom(repos, 1, ho), err |-> "", repos |-> repos]

\* a traversal that checks every branch out before it scans it
CheckedOut(g, b) == [g EXCEPT !.tree = Committed(g, b), !.head = b]

ScanRepos_WithCheckout(repos, ho) ==
    [Records |->
        Flatten([k \in 1..Len(repos) |->
            IF ListBranches(repos[k]).err # "" THEN <<>>
            ELSE IF ho THEN ScanBranchesFrom(repos[k], <<"HEAD">>, 1)
            ELSE Flatten([b \in 1..Len(repos[k].branches) |->
                     ScanBranchesFrom(CheckedOut(repos[k], repos[k].branches[b]),
                                      <<repos[k].branches[b]>>, 1)])]),
     err |-> "",
     repos |-> [k \in 1..Len(repos) |->
                  IF ho \/ ListBranches(repos[k]).err # "" THEN repos[k]
                  ELSE CheckedOut(repos[k], repos[k].branches[Len(repos[k].branches)])]]

\* a traversal that scans the repositories from the last to the first
ScanRepos_LastFirst(repos, ho) ==
    [Records |-> ScanReposFrom([k \in 1..Len(repos) |-> repos[Len(repos) + 1 - k]], 1, ho),
     err |-> "", repos |-> repos]

\* ScanRepos(repos, findRegex, ho): (inventory, error), and the repositories
\* as the call leaves them: it runs no git command but the listing
ScanRepos(repos, ho) ==
    [Records |-> ScanReposFrom(repos, 1, ho), err |-> "", repos |-> repos]

\* shouldIncludeDir(path): none of the ignored names occurs in the path
IgnoredDirs == {".DS_Store", ".ruff_cache", ".ropeproject"}

shouldIncludeDir(name) == name \notin IgnoredDirs

\* the roots that Find is called with: the workspace and a path that
\* os.ReadDir cannot read
Roots == {"ws", "gone"}

\* os.ReadDir(root): the entries of the workspace, in order
ReadDir(root, ws) ==
    IF root = "ws" THEN [entries |-> ws, err |-> ""]
    ELSE [entries |-> <<>>, err |-> "readdir"]

\* ListRepositoriesAtRoot(root): every entry that is not ignored
ListRepositoriesAtRoot(root, ws) ==
    IF ReadDir(root, ws).err # "" THEN [repos |-> <<>>, err |-> ReadDir(root, ws).err]
    ELSE [repos |-> SelectSeq(ReadDir(root, ws).entries,
                              LAMBDA g : shouldIncludeDir(g.name)),
          err |-> ""]

\* the lines of Find after ScanRepos: its inventory and its error
FindReturns(sc) == [Records |-> sc.Records, err |-> sc.err, exit |-> FALSE]

\* Find(root, headOnly): the inventory and the error, or exit when log.Fatal
\* ends the process
Find(root, ws, ho) ==
    IF ListRepositoriesAtRoot(root, ws).err # ""
    THEN [Records |-> <<>>, err |-> "", exit |-> TRUE]
    ELSE FindReturns(ScanRepos(ListRepositoriesAtRoot(root, ws).repos, ho))

\* the entries of a workspace root, the second one a directory that the
\* traversal ignores
RepoNames == <<"r1", ".ruff_cache", "r3", "r4">>

\* the working trees of a workspace: one that is no git repository, one
\* without a workflow directory, and trees with a file that holds a
\* reference next to another such file and one without, to an unreadable
\* file, or to a directory
ScanTrees ==
    {Repo(FALSE, TRUE, Named(<<[kind |-> "file", bytes |-> PieceX]>>)),
     Repo(TRUE, FALSE, <<>>),
     Repo(TRUE, TRUE, Named(<<[kind |-> "file", bytes |-> PieceX],
                              [kind |-> "file", bytes |-> <<"\n">>],
                              [kind |-> "file", bytes |-> PieceZ]>>)),
     Repo(TRUE, TRUE, Named(<<[kind |-> "unreadable", bytes |-> Empty],
                              [kind |-> "file", bytes |-> PieceZ \o <<"\n">> \o PieceX]>>)),
     Repo(TRUE, TRUE, Named(<<[kind |-> "file", bytes |-> Empty],
                              [kind |-> "dir", bytes |-> Empty]>>))}

BranchLists == {<<"main">>, <<"main", "dev">>}

Workspaces ==
    {[i \in 1..Len(ts) |-> GitRepository(RepoNames[i], ts[i].tree, ts[i].branches)] :
        ts \in SeqsUpTo([tree : ScanTrees, branches : BranchLists], MaxRepos)}

InitInventory ==
    /\ cacheFile = FileAbsent
    /\ proc = "running"
    /\ cache = NoEntries
    /\ now = 1
    /\ last = Call("init")
    /\ hist = NoEntries
    /\ raw = Empty
    /\ content = Empty
    /\ repo = NoRepo
    /\ wfs = <<>>
    /\ scanned = NoRepo
    /\ edits = 0
    /\ workspace \in Workspaces
    /\ upserts = NoUpserts

ScanReposCall(ho) ==
    /\ proc = "running"
    /\ \E sc \in {ScanRepos(workspace, ho)} :
          /\ last' = [Call("ScanRepos") EXCEPT
                         !.ho = ho, !.ret = sc.Records, !.err = sc.err]
          /\ workspace' = sc.repos
    /\ UNCHANGED <<cacheFile, proc, cache, now, hist, raw, content, repo, wfs, scanned,
                   edits, upserts>>

FindCall(root, ho) ==
    /\ proc = "running"
    /\ \E fd \in {Find(root, workspace, ho)} :
          /\ proc' = IF fd.exit THEN "exited" ELSE "running"
          /\ last' = [Call("Find") EXCEPT
                         !.action = root, !.ho = ho, !.ret = fd.Records, !.err = fd.err]
    /\ UNCHANGED <<cacheFile, cache, now, hist, raw, content, repo, wfs, scanned,
                   edits, workspace, upserts>>

NextInventory ==
    \E ho \in BOOLEAN :
        \/ ScanReposCall(ho)
        \/ \E root \in Roots : FindCall(root, ho)

SpecInventory == InitInventory /\ [][NextInventory]_vars

----------------------------------------------------------------------------
(* Claims about the resolver (Spec) *)

\* the call of Resolve that this step made returned an identifier
Returned(l) == l.op = "Resolve" /\ l.err = "" /\ ~l.panic

\* C1: once Resolve(r) has returned an identifier, every later Resolve(r) of
\* the same resolver returns that identifier and issues no network call.
C1_ResolveOnceThenCached ==
    [][\A r \in DOMAIN hist :
          (last'.op = "Resolve" /\ last'.action = r)
          => (Returned(last') /\ ~last'.net /\ last'.sha = hist[r].sha)]_vars

\* a second Resolve answered from memory after a first one answered by the network
C1_Witness ==
    /\ Returned(last)
    /\ ~last.net
    /\ last.action \in DOMAIN hist
    /\ hist[last.action].net

\* C2: a failing Resolve changes neither the in-memory map nor the cache
\* file, leaves no entry for its key, and the next Resolve of the same
\* reference goes to the network again.
C2_FailureNotCached ==
    [][/\ (last'.op = "Resolve" /\ last'.err # "")
          => /\ cache' = cache
             /\ cacheFile' = cacheFile
             /\ MapGet(cache', last'.action) = Empty
       /\ (/\ last.op = "Resolve" /\ last.err # ""
           /\ last'.op = "Resolve" /\ last'.action = last.action)
          => last'.net]_vars

\* a Resolve that found no entry of the version's name: no entry for its key
\* in memory or in the file
C2_Witness ==
    /\ last.op = "Resolve"
    /\ last.err = "not found"
    /\ last.resp.body # <<>>
    /\ last.action \notin DOMAIN cache
    /\ cacheFile.kind = "object"
    /\ last.action \notin DOMAIN Unmarshal(cacheFile.doc)

\* C3: when Resolve(r) returns an identifier it got from the network, the
\* cache file holds an entry for r with that identifier and so does the
\* in-memory map.
C3_WriteThrough ==
    (Returned(last) /\ last.net)
    => LET l == loadCache(cacheFile)
       IN /\ l.err = ""
          /\ last.action \in DOMAIN l.m.kv
          /\ l.m.kv[last.action].SHA = last.sha
          /\ MapGet(cache, last.action) = last.sha

\* C4: constructing the resolver over a cache file that does not parse
\* reports the failure and leaves no working resolver.
C4_CorruptCacheSurfaced ==
    (last.op = "NewSHAResolver" /\ cacheFile.kind = "invalid")
    => (last.err # "" /\ proc # "running")

\* the first entry of a listing that bears the name
NamedEntries(body, version) == SelectSeq(body, LAMBDA e : e.Name = version)

\* C9: when the listing entry that matches the version (the first one of
\* that name) has an empty commit id, Resolve fails as not found and caches
\* nothing; and no Resolve ever returns an empty identifier.
C9_EmptyCommitIsNotFound ==
    /\ [](Returned(last) => last.sha # Empty)
    /\ [][(/\ last'.op = "Resolve" /\ last'.net /\ last'.resp.kind = "ok"
           /\ NamedEntries(last'.resp.body, last'.target.version) # <<>>
           /\ Head(NamedEntries(last'.resp.body, last'.target.version)).Commit.Sha
                 = Empty)
          => /\ last'.err = "not found"
             /\ cache' = cache
             /\ cacheFile' = cacheFile]_vars

\* a Resolve whose listing named the version with an empty commit id, made by
\* a resolver whose cache file held an empty identifier for the reference
C9_Witness ==
    /\ last.op = "Resolve"
    /\ last.resp.kind = "ok"
    /\ NamedEntries(last.resp.body, last.target.version) # <<>>
    /\ Head(NamedEntries(last.resp.body, last.target.version)).Commit.Sha = Empty
    /\ last.action \in DOMAIN cache
    /\ last.err = "not found"

----------------------------------------------------------------------------
(* Claims about the cache package (SpecCache) *)

\* Go map read of a hashEntry: the zero value for a missing key
EntryGet(m, k) == IF k \in DOMAIN m THEN m[k] ELSE ZeroEntry

\* C5: GetCache gives an empty map and no error when cache.json is absent,
\* and an error and no map when cache.json is not valid JSON.
C5_LoadAbsentOrInvalid ==
    last.op = "GetCache"
    => /\ cacheFile.kind = "absent" => (last.err = "" /\ last.m = GoMap(NoEntries))
       /\ cacheFile.kind = "invalid" => (last.err # "" /\ last.m = NilMap)

\* GetCache was called on a directory without cache.json
C5_Witness ==
    /\ last.op = "GetCache"
    /\ cacheFile.kind = "absent"
    /\ last.err = ""

Utf8Valid(s) == \A i \in 1..Len(s) : s[i] # BadByte

\* what a successful UpdateCacheEntry(k, s) must leave in the file
RoundTrip(before, after, k, s) ==
    /\ after.err = ""
    /\ EntryGet(after.m.kv, k).SHA = s
    /\ \A k2 \in (DOMAIN before.m.kv \cup DOMAIN after.m.kv) \ {k} :
          /\ k2 \in DOMAIN before.m.kv
          /\ k2 \in DOMAIN after.m.kv
          /\ after.m.kv[k2] = before.m.kv[k2]

\* C6 as claimed: for every key k and identifier s, after a successful
\* UpdateCacheEntry(dir, k, s) loadCache(dir)[k].sha = s and every other
\* key reads back as before.
C6_RoundTripEveryString ==
    [][(last'.op = "UpdateCacheEntry" /\ last'.err = "" /\ ~last'.panic)
       => RoundTrip(loadCache(cacheFile), loadCache(cacheFile'),
                    last'.action, last'.sha)]_vars

\* C6 amended: the same for every key k and identifier s that are valid UTF-8.
C6_RoundTripUtf8 ==
    [][(/\ last'.op = "UpdateCacheEntry" /\ last'.err = "" /\ ~last'.panic
        /\ Utf8Valid(last'.action) /\ Utf8Valid(last'.sha))
       => RoundTrip(loadCache(cacheFile), loadCache(cacheFile'),
                    last'.action, last'.sha)]_vars

\* an update of one key in a file that holds another key and, for the key
\* itself, another identifier
C6_Witness ==
    /\ last.op = "UpdateCacheEntry"
    /\ last.err = ""
    /\ ~last.panic
    /\ last.action = RefTag
    /\ last.sha = Sha2
    /\ cacheFile.kind = "object"
    /\ EntryGet(Unmarshal(cacheFile.doc), RefTag) = hashEntry(Sha2, FormatTime(2))
    /\ EntryGet(Unmarshal(cacheFile.doc), RefBare) = hashEntry(Sha1, FormatTime(0))

----------------------------------------------------------------------------
(* Claims about the parsing of a reference (SpecParse) *)

AtPositions(s) == {i \in 1..Len(s) : s[i] = "@"}

LastAt(s) == CHOOSE i \in AtPositions(s) : \A j \in AtPositions(s) : j <= i

TagsURL(base) == apiURL \o <<"/">> \o base \o <<"/tags">>
BranchesURL(base) == apiURL \o <<"/">> \o base \o <<"/branches">>

\* C7 as claimed: every input is split at its last '@' into base name and
\* version; an input without '@' is its own base name, with version "main"
\* looked up in the branches listing.
C7_SplitOnLastAt ==
    last.op = "parse"
    => IF AtPositions(last.action) = {}
       THEN /\ last.splits = <<last.action, Empty>>
            /\ last.target.actionBase = last.action
            /\ last.target.version = Main
            /\ last.target.url = BranchesURL(last.action)
       ELSE LET i == LastAt(last.action)
                base == SubSeq(last.action, 1, i - 1)
                version == SubSeq(last.action, i + 1, Len(last.action))
            IN /\ last.splits = <<base, version>>
               /\ last.target.actionBase = base
               /\ version # Empty => last.target.version = version

\* C8: the tags listing of the base name is asked exactly when the version
\* starts with 'v' or 'V'; every other version asks the branches listing.
C8_ListingChoice ==
    last.op = "parse"
    => LET version == last.target.version
           base == last.target.actionBase
           tagLike == version # Empty /\ version[1] \in {"v", "V"}
       IN /\ tagLike => last.target.url = TagsURL(base)
          /\ ~tagLike => last.target.url = BranchesURL(base)
          /\ TagsURL(base) # BranchesURL(base)

\* a version with a capital V sent to the tags listing
C8_Witness ==
    /\ last.op = "parse"
    /\ last.action = <<"o", "@", "V", "1">>
    /\ last.target.url = TagsURL(<<"o">>)

----------------------------------------------------------------------------
(* Claims about the scanner (SpecScan) *)

\* the offsets (from 1) of the newlines of a content
NewlinesOf(bytes) == {i \in 1..Len(bytes) : bytes[i] = "\n"}

\* the offset (from 1) of the first byte of line n, counted in the content itself
LineStart(bytes, n) ==
    IF n = 1 THEN 1
    ELSE 1 + CHOOSE i \in NewlinesOf(bytes) :
                 Cardinality({j \in NewlinesOf(bytes) : j < i}) = n - 2

\* a match lies in the content where its line and column say
Positioned(bytes, mt) ==
    /\ mt.Line >= 1 /\ mt.Col >= 1 /\ Len(mt.Text) >= 1
    /\ mt.Line <= Cardinality(NewlinesOf(bytes)) + 1
    /\ LET from == LineStart(bytes, mt.Line) + mt.Col - 1
           to == from + Len(mt.Text) - 1
       IN /\ to <= Len(bytes)
          /\ SubSeq(bytes, from, to) = mt.Text
          /\ \A i \in LineStart(bytes, mt.Line)..to : bytes[i] # "\n"

\* C10: the matches come in strictly ascending (line, column) order and do
\* not overlap; each lies exactly at its line and column (from 1, in bytes)
\* of the content split at '\n'; no match holds a newline.
C10_MatchesOrderedAndPositioned ==
    last.op = "ScanContentWithPosition"
    => LET ms == last.matches
       IN /\ \A k \in 1..Len(ms) : Positioned(content, ms[k])
          /\ \A k \in 1..Len(ms) : \A i \in 1..Len(ms[k].Text) : ms[k].Text[i] # "\n"
          /\ \A k \in 1..(Len(ms) - 1) :
                \/ ms[k].Line < ms[k + 1].Line
                \/ /\ ms[k].Line = ms[k + 1].Line
                   /\ ms[k].Col + Len(ms[k].Text) <= ms[k + 1].Col

\* two matches on the second line of a content, the second not at column 1
C10_Witness ==
    /\ last.op = "ScanContentWithPosition"
    /\ Len(last.matches) = 2
    /\ last.matches[1].Line = 2
    /\ last.matches[2].Line = 2
    /\ last.matches[1].Col = 1
    /\ last.matches[2].Col > 1

\* The language of findRegex, stated on a whole string and not as a search.

AllIn(s, class) == \A i \in 1..Len(s) : s[i] \in class

\* d+ (. d+)* with at least `least` groups of digits
DottedDigits(s, least) ==
    LET groups == Split(s, ".")
    IN /\ Len(groups) >= least
       /\ \A i \in 1..Len(groups) : groups[i] # Empty /\ AllIn(groups[i], Digits)

IsVersion(v) ==
    \/ v \in {<<"m", "a", "i", "n">>, <<"d", "e", "v">>, <<"m", "a", "s", "t", "e", "r">>}
    \/ v # Empty /\ Head(v) = "v" /\ DottedDigits(Tail(v), 1)
    \/ DottedDigits(v, 2)

\* line[a..b] is word+ / word+ @ version, with the '/' at i and the '@' at j
IsReferenceAt(line, a, i, j, b) ==
    /\ a < i /\ i + 1 < j /\ j < b
    /\ line[i] = "/" /\ line[j] = "@"
    /\ AllIn(SubSeq(line, a, i - 1), WordOrDash)
    /\ AllIn(SubSeq(line, i + 1, j - 1), WordOrDash)
    /\ IsVersion(SubSeq(line, j + 1, b))

\* some substring of the line is in the language of the pattern
HoldsReference(line) ==
    \E j \in {x \in 1..Len(line) : line[x] = "@"} :
    \E i \in {x \in 1..(j - 1) : line[x] = "/"} :
    \E a \in 1..(i - 1) : \E b \in (j + 1)..Len(line) :
        IsReferenceAt(line, a, i, j, b)

\* C11: ScanContentWithPosition returns a nil error for every content, and
\* no match exactly when no line of the content holds a substring that
\* matches the reference pattern.
C11_ExtractorNeverFails ==
    last.op = "ScanContentWithPosition"
    => /\ last.err = ""
       /\ (last.matches = <<>>)
          <=> (\A n \in 1..Len(Split(content, "\n")) :
                  ~HoldsReference(Split(content, "\n")[n]))

\* a content with a '/' and an '@' and no reference: no match and no error
C11_Witness ==
    /\ last.op = "ScanContentWithPosition"
    /\ last.err = ""
    /\ last.matches = <<>>
    /\ \E i \in 1..Len(content) : content[i] = "@"
    /\ \E i \in 1..Len(content) : content[i] = "/"

----------------------------------------------------------------------------
(* Claims about AssembleWorkflow (SpecAssemble) *)

\* C12: a call of AssembleWorkflow that returns, returns no error and a
\* Workflow with one Finding per Match of the extractor, in the order of the
\* matches and with each match's line and column; the Finding of a match whose
\* Resolve returned an error has FixSHA "N/A", the Finding of a match whose
\* Resolve succeeded has the identifier that Resolve returned.
C12_OneFindingPerMatch ==
    last.op = "AssembleWorkflow" /\ ~last.panic
    => /\ last.err = ""
       /\ Len(last.ret[1].Issues) = Len(last.matches)
       /\ Len(last.calls) = Len(last.matches)
       /\ \A k \in 1..Len(last.matches) :
             /\ last.ret[1].Issues[k].Line = last.matches[k].Line
             /\ last.ret[1].Issues[k].Column = last.matches[k].Col
             /\ last.ret[1].Issues[k].FixSHA =
                   IF last.calls[k].err # "" THEN SHA256NotAvailable
                   ELSE last.calls[k].sha

\* a returned workflow with a resolved finding after an unresolved one
C12_Witness ==
    /\ last.op = "AssembleWorkflow" /\ ~last.panic
    /\ \E j, k \in 1..Len(last.calls) :
          /\ j < k
          /\ last.calls[j].err # "" /\ last.ret[1].Issues[j].FixSHA = SHA256NotAvailable
          /\ last.calls[k].err = "" /\ last.ret[1].Issues[k].FixSHA = PinSha

----------------------------------------------------------------------------
(* Claims about ApplyFixesInFile (SpecFix) *)

\* the file of workflow wf as tree r holds it
FileOf(r, wf) == ReadFile(r, wf.FilePath)

\* a step of ApplyFixesInFile on a workflow whose file is, byte for byte, what
\* the audit that produced the workflow read
AppliesToScanned ==
    /\ last'.op = "ApplyFixesInFile"
    /\ FileOf(repo, last'.ret[1]).err = ""
    /\ FileOf(repo, last'.ret[1]) = FileOf(scanned, last'.ret[1])

\* such a step that wrote the whole file
FixesScanned == AppliesToScanned /\ ~last'.dry /\ last'.err = ""

\* by how much the fixes of the resolved findings left of column col on line
\* n lengthen what is before that column
RECURSIVE Shift(_, _, _, _)
Shift(issues, k, n, col) ==
    IF k > Len(issues) THEN 0
    ELSE Shift(issues, k + 1, n, col)
         + (IF /\ issues[k].Line = n /\ issues[k].Column < col
               /\ issues[k].FixSHA # SHA256NotAvailable
            THEN Len(Pinned(issues[k])) - Len(issues[k].Original)
            ELSE 0)

\* the n bytes of line at column col
SpanAt(line, col, n) ==
    IF col + n - 1 <= Len(line) THEN SubSeq(line, col, col + n - 1) ELSE <<"out of range">>

\* the bytes that finding f of workflow wf occupies once the file is fixed,
\* read from the content bytes
SpanOf(bytes, wf, f) ==
    SpanAt(Split(bytes, "\n")[f.Line], f.Column + Shift(wf.Issues, 1, f.Line, f.Column),
           Len(f.Original))

\* C13: when ApplyFixesInFile has written the file of a workflow, the bytes
\* of the match of every finding marked "N/A" are what they were before.
C13_UnavailableUntouched ==
    [][FixesScanned
       => \A k \in 1..Len(last'.ret[1].Issues) :
             last'.ret[1].Issues[k].FixSHA = SHA256NotAvailable
             => SpanOf(FileOf(repo', last'.ret[1]).content, last'.ret[1],
                       last'.ret[1].Issues[k])
                = last'.ret[1].Issues[k].Original]_vars

\* line with the span of every resolved finding of issues[1..k] on line n
\* replaced by the pinned reference, the rightmost span first
RECURSIVE ExactLine(_, _, _, _)
ExactLine(line, issues, k, n) ==
    IF k = 0 THEN line
    ELSE IF issues[k].Line # n \/ issues[k].FixSHA = SHA256NotAvailable
    THEN ExactLine(line, issues, k - 1, n)
    ELSE ExactLine(SubSeq(line, 1, issues[k].Column - 1) \o Pinned(issues[k])
                      \o SubSeq(line, issues[k].Column + Len(issues[k].Original), Len(line)),
                   issues, k - 1, n)

\* the findings of line n
OnLine(wf, n) == {k \in 1..Len(wf.Issues) : wf.Issues[k].Line = n}

\* C14: when ApplyFixesInFile has written the file of a workflow, every line
\* that holds two or more findings is the line of the original with exactly
\* the span of each resolved finding replaced, and nothing else.
C14_SameLineExactSpans ==
    [][FixesScanned
       => \A n \in 1..Len(Split(FileOf(repo, last'.ret[1]).content, "\n")) :
             Cardinality(OnLine(last'.ret[1], n)) >= 2
             => Split(FileOf(repo', last'.ret[1]).content, "\n")[n]
                = ExactLine(Split(FileOf(repo, last'.ret[1]).content, "\n")[n],
                            SortIssues(last'.ret[1].Issues),
                            Len(last'.ret[1].Issues), n)]_vars

\* the errors of ApplyFixesInFile for a finding it cannot place
MismatchErrors == {"invalid line", "column out of range", "could not find"}

\* finding f cannot be placed in lines: its line or its column is out of
\* range, or its text does not occur at or after its column on its line
Misplaced(lines, f) ==
    \/ f.Line > Len(lines)
    \/ f.Column - 1 > Len(lines[f.Line])
    \/ \A i \in f.Column..Len(lines[f.Line]) :
          SpanAt(lines[f.Line], i, Len(f.Original)) # f.Original

\* f is resolved, and no resolved finding of the workflow is on its line
\* before it
FirstResolvedOnLine(wf, f) ==
    /\ f.FixSHA # SHA256NotAvailable
    /\ \A k \in 1..Len(wf.Issues) :
          (wf.Issues[k].Line = f.Line /\ wf.Issues[k].Column < f.Column)
          => wf.Issues[k].FixSHA = SHA256NotAvailable

\* C15: when a finding cannot be placed in the file that ApplyFixesInFile
\* reads, the call returns an error, and whenever the call returns such an
\* error the working tree is what it was before the call.
C15_MismatchLeavesFile ==
    [][last'.op = "ApplyFixesInFile"
       => /\ last'.err \in MismatchErrors => repo' = repo
          /\ (/\ FileOf(repo, last'.ret[1]).err = ""
              /\ \E k \in 1..Len(last'.ret[1].Issues) :
                    /\ FirstResolvedOnLine(last'.ret[1], last'.ret[1].Issues[k])
                    /\ Misplaced(Split(FileOf(repo, last'.ret[1]).content, "\n"),
                                 last'.ret[1].Issues[k]))
             => last'.err \in MismatchErrors]_vars

\* a call that is not a dry run fails on a finding after the first resolved
\* finding of the file was placed
C15_Witness ==
    /\ last.op = "ApplyFixesInFile" /\ ~last.dry /\ last.err = "could not find"
    /\ FileOf(repo, last.ret[1]).err = ""
    /\ \E k \in 1..Len(last.ret[1].Issues) :
          /\ SortIssues(last.ret[1].Issues)[1] = last.ret[1].Issues[k]
          /\ last.ret[1].Issues[k].FixSHA # SHA256NotAvailable
          /\ ~Misplaced(Split(FileOf(repo, last.ret[1]).content, "\n"),
                        last.ret[1].Issues[k])

\* C17: a call of ApplyFixesInFile or of AutoFixRepository in dry-run mode
\* leaves every file of the working tree as it was.
C17_DryRunWritesNothing ==
    [][(last'.op \in {"ApplyFixesInFile", "AutoFixRepository"} /\ last'.dry)
       => repo' = repo]_vars

\* a dry run of AutoFixRepository that placed a resolved finding and returned
\* without error
C17_Witness ==
    /\ last.op = "AutoFixRepository" /\ last.dry
    /\ last.err = ""
    /\ \E w \in 1..Len(last.ret) : \E k \in 1..Len(last.ret[w].Issues) :
          /\ last.ret[w].Issues[k].FixSHA # SHA256NotAvailable
          /\ FileOf(repo, last.ret[w]).err = ""
          /\ ~Misplaced(Split(FileOf(repo, last.ret[w]).content, "\n"),
                        last.ret[w].Issues[k])

\* lines with the span of every resolved finding replaced by its pinned
\* reference, line by line
ExactLines(lines, wf) ==
    [n \in 1..Len(lines) |->
        ExactLine(lines[n], SortIssues(wf.Issues), Len(wf.Issues), n)]

\* C18: after a call of ApplyFixesInFile that is not a dry run and returns no
\* error, the content of the file is the original content with the span of
\* every resolved finding replaced by "owner/name@<id> # <version>", every
\* other byte and every line break being as before.
C18_WrittenIsExactReplacement ==
    [][FixesScanned
       => FileOf(repo', last'.ret[1]).content
          = Join(ExactLines(Split(FileOf(repo, last'.ret[1]).content, "\n"),
                            last'.ret[1]), <<"\n">>)]_vars

\* the lines of the file of workflow wf in tree r
LinesOf(r, wf) == Split(FileOf(r, wf).content, "\n")

\* the lines of workflow wf that hold a finding with an identifier
FixedLines(wf) ==
    {wf.Issues[k].Line :
        k \in {j \in 1..Len(wf.Issues) : wf.Issues[j].FixSHA # SHA256NotAvailable}}

\* C28: ApplyFixesInFile never changes the number of lines of a file, and
\* it changes no line but those that hold a finding with an identifier:
\* whether it is a dry run, returns an error or writes, as long as the
\* write itself does not fail.
C28_LinesKept ==
    [][(/\ last'.op = "ApplyFixesInFile"
        /\ FileOf(repo, last'.ret[1]).err = ""
        /\ last'.fs \in {"", "ok"})
       => /\ FileOf(repo', last'.ret[1]).err = ""
          /\ Len(LinesOf(repo', last'.ret[1])) = Len(LinesOf(repo, last'.ret[1]))
          /\ \A n \in 1..Len(LinesOf(repo, last'.ret[1])) :
                n \notin FixedLines(last'.ret[1])
                => LinesOf(repo', last'.ret[1])[n] = LinesOf(repo, last'.ret[1])[n]]_vars

\* a fix that was written and changed one line of a file with two
\* references on two lines
C28_Witness ==
    /\ last.op = "ApplyFixesInFile"
    /\ ~last.dry
    /\ last.err = ""
    /\ last.fs = "ok"
    /\ FileOf(scanned, last.ret[1]).content = TwoLines
    /\ \E n, m \in 1..Len(LinesOf(repo, last.ret[1])) :
          /\ LinesOf(repo, last.ret[1])[n] # LinesOf(scanned, last.ret[1])[n]
          /\ LinesOf(repo, last.ret[1])[m] = PieceX

\* C29: after a fix that was written for a workflow whose findings all
\* have an identifier, a new scan of the file finds no reference, so that a
\* second audit and fix leave the file as it is.
C29_FixIsIdempotent ==
    [][(/\ FixesScanned
        /\ \A k \in 1..Len(last'.ret[1].Issues) :
              last'.ret[1].Issues[k].FixSHA # SHA256NotAvailable)
       => ScanContentWithPosition(FileOf(repo', last'.ret[1]).content).results = <<>>]_vars

----------------------------------------------------------------------------
(* Claims about AuditRepository and AutoFixRepository (SpecRepo) *)

\* C16: when AutoFixRepository returns, every workflow of the audit was given
\* to ApplyFixesInFile, and if one of these calls returned an error then
\* AutoFixRepository returns an error.
C16_RemediationFailureReported ==
    (last.op = "AutoFixRepository" /\ ~last.panic /\ last.ret # <<>>)
    => /\ Len(last.errs) = Len(last.ret)
       /\ (\E k \in 1..Len(last.errs) : last.errs[k] # "") => last.err # ""

\* the names of the entries that are files with at least one match
WithFindings(r) ==
    {r.files[i].name : i \in {j \in 1..Len(r.files) :
        /\ r.files[j].kind = "file"
        /\ ScanContentWithPosition(r.files[j].bytes).results # <<>>}}

\* C19: AuditRepository on a directory that is not a git repository returns an
\* error and looks nothing up; on a git repository it returns no error and a
\* list that holds, once each, the workflows of the entries of
\* .github/workflows that are files with at least one finding.
C19_AuditReturnsWorkflowsWithFindings ==
    [][(last'.op = "AuditRepository" /\ ~last'.panic)
       => IF ~repo.isGit
          THEN last'.err # "" /\ last'.ret = <<>> /\ cacheFile' = cacheFile
          ELSE /\ last'.err = ""
               /\ {last'.ret[k].FilePath : k \in 1..Len(last'.ret)} = WithFindings(repo)
               /\ Len(last'.ret) = Cardinality(WithFindings(repo))
               /\ \A k \in 1..Len(last'.ret) : last'.ret[k].Issues # <<>>]_vars

----------------------------------------------------------------------------
(* Claims about ScanRepos (SpecInventory) *)

\* the repositories that ScanRepos can scan: git lists their branches and
\* they have a workflow directory
Scannable(g) == g.tree.isGit /\ g.tree.dir

\* the entries of a repository that can be read and hold a match
Matching(g) ==
    {i \in 1..Len(g.tree.files) :
        /\ g.tree.files[i].kind = "file"
        /\ ScanContentWithPosition(g.tree.files[i].bytes).results # <<>>}

\* the branches that ScanRepos looks at in repository g
BranchesSeen(g, ho) ==
    IF ho THEN {"HEAD"} ELSE {g.branches[k] : k \in 1..Len(g.branches)}

\* the texts of the matches of entry i of repository g
TextsOf(g, i) ==
    [k \in 1..Len(ScanContentWithPosition(g.tree.files[i].bytes).results) |->
        ScanContentWithPosition(g.tree.files[i].bytes).results[k].Text]

\* the records that the scannable repositories of ws give: one for each
\* branch looked at and each readable file with a match
RecordsDue(ws, ho) ==
    UNION {{InventoryRecord(ws[n].name, b,
                            ws[n].absPath
                               \o <<".github", "workflows", ws[n].tree.files[i].name>>,
                            TextsOf(ws[n], i)) :
               b \in BranchesSeen(ws[n], ho), i \in Matching(ws[n])} :
           n \in {m \in 1..Len(ws) : Scannable(ws[m])}}

\* C20: ScanRepos returns no error, and its inventory holds, once each, the
\* records of every repository that can be scanned, whatever the other
\* repositories of the workspace are: a repository whose branches cannot be
\* listed or that has no workflow directory, and a file that cannot be read,
\* give no record and end nothing.
C20_TraversalNeverAborted ==
    last.op = "ScanRepos"
    => /\ last.err = ""
       /\ {last.ret[k] : k \in 1..Len(last.ret)} = RecordsDue(workspace, last.ho)
       /\ Len(last.ret) = Cardinality(RecordsDue(workspace, last.ho))

\* a scan of a workspace where a repository that cannot be scanned comes
\* before one with an unreadable file and a record
C20_Witness ==
    /\ last.op = "ScanRepos"
    /\ \E i, j \in 1..Len(workspace) :
          /\ i < j
          /\ ~Scannable(workspace[i])
          /\ Scannable(workspace[j])
          /\ \E f \in 1..Len(workspace[j].tree.files) :
                workspace[j].tree.files[f].kind = "unreadable"
          /\ \E k \in 1..Len(last.ret) : last.ret[k].Repository = workspace[j].name

\* the records that a scan of the current checkout alone gives: one under
\* "HEAD" for each repository with a workflow directory and each readable
\* file of it with a match
HeadRecordsDue(ws) ==
    UNION {{InventoryRecord(ws[n].name, "HEAD",
                            ws[n].absPath
                               \o <<".github", "workflows", ws[n].tree.files[i].name>>,
                            TextsOf(ws[n], i)) : i \in Matching(ws[n])} :
           n \in {m \in 1..Len(ws) : ws[m].tree.dir}}

\* C21: in HEAD-only mode ScanRepos lists no branches: every repository it
\* is given is scanned once under "HEAD", and each file with a match gives
\* exactly one record, whatever the branches of the repository are and
\* whether or not git can list them.
C21_HeadOnlyBypassesEnumeration ==
    (last.op = "ScanRepos" /\ last.ho)
    => /\ {last.ret[k] : k \in 1..Len(last.ret)} = HeadRecordsDue(workspace)
       /\ Len(last.ret) = Cardinality(HeadRecordsDue(workspace))

\* where a record comes from: the position of its repository in ws, of its
\* branch in the branches of that repository, and of its file in the
\* workflow directory
RepoIx(ws, rec) == CHOOSE n \in 1..Len(ws) : ws[n].name = rec.Repository

BranchIx(ws, rec) ==
    CHOOSE b \in 1..Len(ws[RepoIx(ws, rec)].branches) :
        ws[RepoIx(ws, rec)].branches[b] = rec.Branch

FileIx(ws, rec) ==
    CHOOSE i \in 1..Len(ws[RepoIx(ws, rec)].tree.files) :
        ws[RepoIx(ws, rec)].tree.files[i].name = rec.FilePath[Len(rec.FilePath)]

\* rec comes before rec2 in repository order, then branch order, then file order
ComesBefore(ws, rec, rec2) ==
    \/ RepoIx(ws, rec) < RepoIx(ws, rec2)
    \/ /\ RepoIx(ws, rec) = RepoIx(ws, rec2)
       /\ \/ BranchIx(ws, rec) < BranchIx(ws, rec2)
          \/ /\ BranchIx(ws, rec) = BranchIx(ws, rec2)
             /\ FileIx(ws, rec) < FileIx(ws, rec2)

\* C22: in all-branches mode the inventory holds exactly one record for each
\* repository whose branches git lists, each of its branches and each file
\* of its workflow directory with a match, in repository order, then branch
\* order, then file order; a file without a match gives no record.
C22_OneRecordPerTripleInOrder ==
    (last.op = "ScanRepos" /\ ~last.ho)
    => /\ {last.ret[k] : k \in 1..Len(last.ret)} = RecordsDue(workspace, FALSE)
       /\ Len(last.ret) = Cardinality(RecordsDue(workspace, FALSE))
       /\ \A k, l \in 1..Len(last.ret) :
             k < l => ComesBefore(workspace, last.ret[k], last.ret[l])

\* a scan of all branches that gave records of two repositories, of two
\* branches of one repository and of two files of one branch, next to a
\* file without a match
C22_Witness ==
    /\ last.op = "ScanRepos"
    /\ ~last.ho
    /\ \E k, l \in 1..Len(last.ret) : last.ret[k].Repository # last.ret[l].Repository
    /\ \E k, l \in 1..Len(last.ret) :
          /\ last.ret[k].Repository = last.ret[l].Repository
          /\ last.ret[k].Branch # last.ret[l].Branch
    /\ \E k, l \in 1..Len(last.ret) :
          /\ last.ret[k].Repository = last.ret[l].Repository
          /\ last.ret[k].Branch = last.ret[l].Branch
          /\ last.ret[k].FilePath # last.ret[l].FilePath
    /\ \E n \in 1..Len(workspace) :
          /\ Scannable(workspace[n])
          /\ \E i \in 1..Len(workspace[n].tree.files) :
                /\ workspace[n].tree.files[i].kind = "file"
                /\ i \notin Matching(workspace[n])

\* the records of ret for branch b of repository name, without the branch
OnBranch(ret, name, b) ==
    {[FilePath |-> ret[k].FilePath, Matches |-> ret[k].Matches] :
        k \in {j \in 1..Len(ret) : ret[j].Repository = name /\ ret[j].Branch = b}}

C23_FindNeverExits ==
    last.op = "Find"
    => /\ proc = "running"
       /\ (ReadDir(last.action, workspace).err # "" => last.err # "")

----------------------------------------------------------------------------
(* Claims about concurrent calls of UpdateCacheEntry (SpecRace) *)

\* both processes went through UpdateCacheEntry and both wrote the file
BothSaved == \A p \in Procs : upserts.of[p].pc = "done" /\ upserts.of[p].err = ""

\* the processes in the order of their saves
Savers ==
    [k \in 1..Len(SelectSeq(upserts.trace, LAMBDA e : e[2] = "save")) |->
        SelectSeq(upserts.trace, LAMBDA e : e[2] = "save")[k][1]]

\* both processes read the file before either wrote it
LoadsFirst ==
    /\ Len(upserts.trace) >= 2
    /\ upserts.trace[1][2] = "load"
    /\ upserts.trace[2][2] = "load"

\* the members of the cache file for key
Members(key) == {i \in 1..Len(cacheFile.doc) : cacheFile.doc[i].key = key}

\* C24: when two processes resolve the same key at the same time, then
\* under every interleaving of their loads and saves the cache file ends
\* with exactly one member for the key, with the identifier of the process
\* that saved last; and the file never holds two members for one key.
C24_LastSaveWins ==
    /\ \A i, j \in 1..Len(cacheFile.doc) :
          cacheFile.doc[i].key = cacheFile.doc[j].key => i = j
    /\ (BothSaved /\ upserts.of["p1"].action = upserts.of["p2"].action)
       => /\ cacheFile.kind = "object"
          /\ Cardinality(Members(upserts.of["p1"].action)) = 1
          /\ \A i \in Members(upserts.of["p1"].action) :
                cacheFile.doc[i].sha = upserts.of[Savers[2]].sha

\* both processes loaded before either saved, for one key and two identifiers
C24_Witness ==
    /\ BothSaved
    /\ LoadsFirst
    /\ upserts.of["p1"].action = upserts.of["p2"].action
    /\ upserts.of["p1"].sha # upserts.of["p2"].sha
    /\ Savers = <<"p2", "p1">>
    /\ \E i \in Members(upserts.of["p1"].action) :
          cacheFile.doc[i].sha = upserts.of["p1"].sha

\* the cache as the file holds it now, and as it held it at the start
StoreNow == loadCache(cacheFile).m.kv

StoreAtStart == loadCache(upserts.start).m.kv

\* the two processes upsert two keys and both wrote the file
TwoKeysSaved == BothSaved /\ upserts.of["p1"].action # upserts.of["p2"].action

\* the file holds the entry that process p wrote
Holds(p) ==
    /\ upserts.of[p].action \in DOMAIN StoreNow
    /\ StoreNow[upserts.of[p].action].SHA = upserts.of[p].sha
    /\ StoreNow[upserts.of[p].action].UpdatedAt = FormatTime(now)

\* C26 as stated: when two processes upsert different keys and both load
\* before either saves, the cache file in the end lacks one of the two
\* keys; when one saves before the other loads it holds both.
C26_LostKey ==
    TwoKeysSaved
    => /\ LoadsFirst => \E p \in Procs : upserts.of[p].action \notin DOMAIN StoreNow
       /\ ~LoadsFirst => \A p \in Procs : Holds(p)

\* C26, amended: when two processes upsert different keys and both load
\* before either saves, the cache file in the end holds the entry of the
\* process that saved last and has lost the entry of the other one: its key
\* is missing, or holds the entry it had before the two calls. When one
\* saves before the other loads, the file holds both entries.
C26_LostUpdate ==
    TwoKeysSaved
    => /\ LoadsFirst
          => /\ Holds(Savers[2])
             /\ ~Holds(Savers[1])
             /\ upserts.of[Savers[1]].action \in DOMAIN StoreNow
                => /\ upserts.of[Savers[1]].action \in DOMAIN StoreAtStart
                   /\ StoreNow[upserts.of[Savers[1]].action]
                         = StoreAtStart[upserts.of[Savers[1]].action]
       /\ ~LoadsFirst => \A p \in Procs : Holds(p)

\* both processes loaded an empty cache before either saved its key
C26_Witness ==
    /\ TwoKeysSaved
    /\ LoadsFirst
    /\ upserts.start = FileAbsent
    /\ Cardinality(DOMAIN StoreNow) = 1

----------------------------------------------------------------------------
(* Claims about the cache of the resolver (SpecHit) *)

\* C25: the cache is looked up under the reference as it was given, before
\* the version is defaulted: Resolve(r) with an identifier for r in the
\* in-memory map returns that identifier as it is, asks the network nothing
\* and leaves the cache file, timestamps included, as it is; without one it
\* asks the network, whatever the map holds for the other spelling of r.
C25_HitKeyedByInput ==
    [][last'.op = "Resolve"
       => /\ MapGet(cache, last'.action) # Empty
             => /\ last'.sha = cache[last'.action]
                /\ last'.err = ""
                /\ ~last'.net
                /\ cacheFile' = cacheFile
                /\ cache' = cache
          /\ MapGet(cache, last'.action) = Empty => last'.net]_vars

\* "o/r@main" was asked of the network while the map held "o/r", and both
\* are now in the map with their own identifiers
C25_Witness ==
    /\ Returned(last)
    /\ last.net
    /\ last.action = RefMain
    /\ RefBare \in DOMAIN hist
    /\ MapGet(cache, RefBare) # Empty
    /\ MapGet(cache, RefMain) # Empty
    /\ cache[RefBare] # cache[RefMain]

\* the keys of the cache file
StoredKeys(file) == DOMAIN loadCache(file).m.kv

============================================================================
